---------------------------- MODULE Spec2Model ----------------------------
(***************************************************************************)
(* A model of the trellis render pipeline and its caches.                  *)
(*                                                                         *)
(*   SpecFresh      cache::cache_is_fresh as a function of its inputs      *)
(*   SpecTransform  PluginRegistry::transform, one stage per step          *)
(*   SpecScripts    the script bundle cache of inline_scripts              *)
(*   SpecMem        the navigation and compiled-styles caches              *)
(*   SpecEncrypt    EncryptContent::transform and ENCRYPT_CACHE, with      *)
(*                  concurrent callers                                     *)
(*   SpecPrebuild   TrellisEngine::prebuild_all, one file per step         *)
(*   SpecCacheWrite two render_page calls on one slug, fs::write in steps   *)
(*   SpecMarker     concurrent cache::update_hash_marker calls              *)
(*   SpecTheme      render_page calls in sequence across theme changes      *)
(*   SpecCachePath  cache::cache_path as a function of the slug             *)
(*   SpecIgnore     the ignore predicates of the renderer, the handlers     *)
(*                  and the content index                                   *)
(*   Spec           TrellisEngine::render_page / page_exists over a        *)
(*                  shared file system, with concurrent callers and an     *)
(*                  editor touching sources and dependencies               *)
(*                                                                         *)
(* Conventions: an Option is a sequence of length 0 (None) or 1 (Some);    *)
(* a SystemTime is an integer, UNIX_EPOCH being 0 (file times before the   *)
(* epoch are negative).                                                    *)
(***************************************************************************)
EXTENDS Integers, Sequences, FiniteSets, TLC

VARIABLES
    \* SpecFresh
    fr_src, fr_cached, fr_deps, fr_out,
    \* SpecTransform
    tr_in, tr_inp, tr_ec0, tr_page, tr_ec, tr_pc, tr_idx, tr_ran, tr_saw, tr_out,
    \* SpecMem
    dirs, SCRIPTS, NAV_CACHE, STYLES, mp, skipped,
    \* Spec
    now, source, cachef, theme_marker, depfile, theme, ENCRYPT_CACHE, rp, budget,
    \* SpecEncrypt
    ec_p, ec_log,
    \* SpecPrebuild
    pb_files, pb_cache, pb_todo, pb_slugs, pb_out, pb_log, pb_listed,
    \* SpecCacheWrite
    cw_file, cw_p, cw_first,
    \* SpecMarker
    hm_marker, hm_now, hm_p,
    \* SpecTheme
    th_now, th_theme, th_marker, th_cache, th_log,
    \* SpecIgnore
    ig_rel, ig_patterns, ig_out,
    \* SpecCachePath
    cp_a, cp_b, cp_out

frVars == <<fr_src, fr_cached, fr_deps, fr_out>>
trVars == <<tr_in, tr_inp, tr_ec0, tr_page, tr_ec, tr_pc, tr_idx, tr_ran, tr_saw, tr_out>>

memVars == <<dirs, SCRIPTS, NAV_CACHE, STYLES, mp, skipped>>

engVars == <<now, source, cachef, theme_marker, depfile, theme, ENCRYPT_CACHE, rp, budget>>

ecVars == <<ec_p, ec_log>>

pbVars == <<pb_files, pb_cache, pb_todo, pb_slugs, pb_out, pb_log, pb_listed>>

cwVars == <<cw_file, cw_p, cw_first>>

hmVars == <<hm_marker, hm_now, hm_p>>

thVars == <<th_now, th_theme, th_marker, th_cache, th_log>>

igVars == <<ig_rel, ig_patterns, ig_out>>

cpVars == <<cp_a, cp_b, cp_out>>

vars == <<frVars, trVars, memVars, engVars, ecVars, pbVars, cwVars, hmVars, thVars, igVars, cpVars>>

---------------------------------------------------------------------------
(* Options and small helpers                                               *)

None == <<>>
Some(x) == <<x>>
IsSome(o) == Len(o) = 1
Get(o) == o[1]

Range(s) == {s[i] : i \in DOMAIN s}

MaxOf(S) == CHOOSE x \in S : \A y \in S : y <= x

---------------------------------------------------------------------------
(* Time                                                                    *)

\* SystemTime::UNIX_EPOCH
UNIX_EPOCH == 0

\* how many ticks before the epoch a file time may lie (SpecFresh)
PreEpoch == 2
\* the last tick of the clock
MaxTime == 3

---------------------------------------------------------------------------
(* cache.rs: cache_is_fresh                                                *)

\* io::Result<bool>: ok = FALSE is Err (fs::metadata failed)
IoErr == [ok |-> FALSE, val |-> FALSE]
IoOk(b) == [ok |-> TRUE, val |-> b]

\* deps.iter().copied().max().unwrap_or(SystemTime::UNIX_EPOCH)
NewestDep(deps) == IF deps = <<>> THEN UNIX_EPOCH ELSE MaxOf(Range(deps))

\* mutant: the dependency list is not consulted
FreshRelation_NoDeps(src_time, cache_time, deps) == cache_time >= src_time

\* Ok(cache_time >= src_time && cache_time >= newest_dep)
FreshRelation(src_time, cache_time, deps) ==
    cache_time >= src_time /\ cache_time >= NewestDep(deps)

\* src_meta, cache_meta: Option of the file's mtime, None when the file
\* does not exist (fs::metadata(..)? returns the error)
cache_is_fresh(src_meta, cache_meta, deps) ==
    IF ~IsSome(src_meta) THEN IoErr
    ELSE IF ~IsSome(cache_meta) THEN IoErr
    ELSE IoOk(FreshRelation(Get(src_meta), Get(cache_meta), deps))

---------------------------------------------------------------------------
(* SpecFresh: cache_is_fresh applied to bounded inputs                     *)

\* longest dependency list tried
MaxDeps == 2

FrTimes == (UNIX_EPOCH - PreEpoch) .. (UNIX_EPOCH + MaxTime)
FrMetas == {None} \cup {Some(t) : t \in FrTimes}
FrDepLists == UNION {[1..n -> FrTimes] : n \in 0..MaxDeps}

FrStart ==
    /\ fr_src \in FrMetas
    /\ fr_cached \in FrMetas
    /\ fr_deps \in FrDepLists
    /\ fr_out = None

FrCall ==
    /\ fr_out = None
    /\ fr_out' = Some(cache_is_fresh(fr_src, fr_cached, fr_deps))
    /\ UNCHANGED <<fr_src, fr_cached, fr_deps, trVars, memVars, engVars, ecVars, pbVars, cwVars, hmVars, thVars, igVars, cpVars>>

FrNext == FrCall

FrIdle == fr_src = None /\ fr_cached = None /\ fr_deps = <<>> /\ fr_out = None

\* C1 (as claimed): cache_is_fresh returns true iff both files exist and
\* cache_mtime >= source_mtime and cache_mtime >= max(deps), where an empty
\* deps list adds no constraint.
C1_FreshIffNoConstraintOnEmpty ==
    IsSome(fr_out) =>
        ( (Get(fr_out).ok /\ Get(fr_out).val)
          <=> ( /\ IsSome(fr_src)
                /\ IsSome(fr_cached)
                /\ Get(fr_cached) >= Get(fr_src)
                /\ \A i \in DOMAIN fr_deps : Get(fr_cached) >= fr_deps[i] ) )


---------------------------------------------------------------------------
(* Text.  A file's content is the sequence of its lines (str::lines); the  *)
(* lines come from a small alphabet, each with what the libraries make of  *)
(* it.                                                                     *)

Delim == "---"

\* str::trim of a line
Trim(l) ==
    CASE l = " ---" -> "---"
      [] l = " "    -> ""
      [] l = "theme-a\n" -> "theme-a"
      [] OTHER      -> l

\* content.trim().is_empty()
IsBlank(content) == \A i \in DOMAIN content : Trim(content[i]) = ""

\* str::split_whitespace().count() of a line of text
Words(l) ==
    CASE l = "Hi"          -> 1
      [] l = "Hi [[world]]" -> 2
      [] l = "Hi [world](world)" -> 2
      [] l = "Hi there"    -> 2
      [] l = "top secret"  -> 2
      [] OTHER             -> 0

RECURSIVE WordCount(_)
WordCount(lines) ==
    IF lines = <<>> THEN 0 ELSE Words(Head(lines)) + WordCount(Tail(lines))

\* serde_yaml::Value, as tag and payload
YStr(s)  == [t |-> "string", v |-> <<s>>]
YBool(b) == [t |-> "bool", v |-> <<IF b THEN "true" ELSE "false">>]
YSeq(q)  == [t |-> "sequence", v |-> q]
YNum(n)  == [t |-> "number", v |-> <<n>>]

\* what serde_yaml reads in one line of a block mapping: <<line, key, value>>
YamlTable ==
    { <<"title: Hello",   "title",    YStr("Hello")>>,
      <<"title: Bye",     "title",    YStr("Bye")>>,
      <<"tags: [a, b]",   "tags",     YSeq(<<"a", "b">>)>>,
      <<"tags: [a,b]",    "tags",     YSeq(<<"a", "b">>)>>,
      <<"draft: true",    "draft",    YBool(TRUE)>>,
      <<"draft: false",   "draft",    YBool(FALSE)>>,
      <<"password: pw",   "password", YStr("pw")>>,
      <<"password: \"\"", "password", YStr("")>>,
      <<"owner: me",      "owner",    YStr("me")>>,
      <<"title: 5",       "title",    YNum("5")>>,
      <<"description: About", "description", YStr("About")>>,
      <<"created: 2024-01-01T01:00:00+01:00", "created", YStr("2024-01-01T01:00:00+01:00")>>,
      <<"updated: yesterday", "updated", YStr("yesterday")>>,
      <<"tags: a",        "tags",     YStr("a")>> }

IsYamlEntry(l) == \E e \in YamlTable : e[1] = l
YamlEntry(l) == CHOOSE e \in YamlTable : e[1] = l

\* serde_yaml::from_str::<HashMap<String, Value>>: a document is a mapping
\* only if every line of it is a "key: value" entry
YamlOk(lines) == \A i \in DOMAIN lines : IsYamlEntry(lines[i])
YamlKeys(lines) == {YamlEntry(lines[i])[2] : i \in DOMAIN lines}
YamlParse(lines) ==
    [k \in YamlKeys(lines) |->
        LET i == CHOOSE j \in DOMAIN lines : YamlEntry(lines[j])[2] = k
        IN  YamlEntry(lines[i])[3]]

---------------------------------------------------------------------------
(* types.rs: Page, PageMetadata, RenderedPage                              *)

\* PageMetadata::default()
DefaultMeta ==
    [title |-> None, description |-> None, created |-> None, updated |-> None, tags |-> None]

NoFrontmatter == [k \in {} |-> YStr("")]

\* Page::new
NewPage(slug, content) ==
    [slug |-> slug, content |-> content, html |-> None,
     frontmatter |-> NoFrontmatter, meta |-> DefaultMeta]

\* HTML strings: the markdown rendering of a body, the encrypted-note
\* shell around a ciphertext, and the placeholder of an absent html
MdHtml(body) == [kind |-> "html", body |-> body, cipher |-> None]
ShellHtml(c) == [kind |-> "encrypted-note", body |-> <<>>, cipher |-> Some(c)]
NoContentHtml == [kind |-> "no-content", body |-> <<>>, cipher |-> None]

\* impl From<Page> for RenderedPage; cached: None
IntoRendered(page) ==
    [slug |-> page.slug,
     html |-> IF IsSome(page.html) THEN Get(page.html) ELSE NoContentHtml,
     frontmatter |-> page.frontmatter,
     meta |-> page.meta,
     cached |-> None]

FmGet(page, k) == IF k \in DOMAIN page.frontmatter THEN Some(page.frontmatter[k]) ELSE None
FmPut(fm, k, val) == [x \in DOMAIN fm \cup {k} |-> IF x = k THEN val ELSE fm[x]]

---------------------------------------------------------------------------
(* plugins/frontmatter.rs                                                  *)

\* index of the line closing the block: the first line after the opening
\* delimiter whose trim is the delimiter; Len + 1 when there is none
FmClose(content) ==
    LET hits == {i \in 2..Len(content) : Trim(content[i]) = Delim}
    IN  IF hits = {} THEN Len(content) + 1
        ELSE CHOOSE i \in hits : \A j \in hits : i <= j

StageOk(page, ec) == [ok |-> TRUE, page |-> page, ecache |-> ec]
StageErr(page, ec) == [ok |-> FALSE, page |-> page, ecache |-> ec]

\* DateTime::parse_from_rfc3339(s).map(|dt| dt.with_timezone(&Utc)).ok():
\* the instant in UTC, or nothing
parse_from_rfc3339(str) ==
    CASE str = "2024-01-01T01:00:00+01:00" -> Some("2024-01-01T00:00:00Z")
      [] str = "2024-01-01T00:00:00Z"      -> Some("2024-01-01T00:00:00Z")
      [] OTHER                             -> None

\* fn as_datetime
as_datetime(value) == IF value.t = "string" THEN parse_from_rfc3339(value.v[1]) ELSE None

\* fn as_string_list (the sequences of this model hold strings only)
as_string_list(value) == IF value.t = "sequence" THEN Some(value.v) ELSE None

\* mutant: title and description are taken from any scalar
MetaOf_AnyScalar(parsed) ==
    [title |-> IF "title" \in DOMAIN parsed THEN Some(parsed["title"].v[1]) ELSE None,
     description |-> IF "description" \in DOMAIN parsed
               THEN Some(parsed["description"].v[1]) ELSE None,
     created |-> IF "created" \in DOMAIN parsed THEN as_datetime(parsed["created"]) ELSE None,
     updated |-> IF "updated" \in DOMAIN parsed THEN as_datetime(parsed["updated"]) ELSE None,
     tags |-> IF "tags" \in DOMAIN parsed THEN as_string_list(parsed["tags"]) ELSE None]

\* the metadata FrontMatter::transform builds from the parsed mapping
MetaOf(parsed) ==
    [title |-> IF "title" \in DOMAIN parsed /\ parsed["title"].t = "string"
               THEN Some(parsed["title"].v[1]) ELSE None,
     description |-> IF "description" \in DOMAIN parsed /\ parsed["description"].t = "string"
               THEN Some(parsed["description"].v[1]) ELSE None,
     created |-> IF "created" \in DOMAIN parsed THEN as_datetime(parsed["created"]) ELSE None,
     updated |-> IF "updated" \in DOMAIN parsed THEN as_datetime(parsed["updated"]) ELSE None,
     tags |-> IF "tags" \in DOMAIN parsed THEN as_string_list(parsed["tags"]) ELSE None]

\* mutant: a block that does not parse is passed over
ParseFailed_PassedOver(page, ec) == StageOk(page, ec)

\* serde_yaml::from_str(&yaml_str).context("parsing frontmatter")?
ParseFailed(page, ec) == StageErr(page, ec)

\* mutant: the opening line is compared after trimming, as the closing one is
OpensBlock_Trimmed(content) == content # <<>> /\ Trim(Head(content)) = Delim

\* first_line == Some("---")
OpensBlock(content) == content # <<>> /\ Head(content) = Delim

\* FrontMatter::transform
FrontMatterStage(page, ec) ==
    IF ~OpensBlock(page.content) THEN StageOk(page, ec)
    ELSE
      LET close == FmClose(page.content)
          fm_lines == SubSeq(page.content, 2, close - 1)
          remainder == SubSeq(page.content, close + 1, Len(page.content))
          yaml_empty == fm_lines = <<>> \/ fm_lines = <<"">>
      IN  IF yaml_empty THEN StageOk([page EXCEPT !.content = remainder], ec)
          ELSE IF ~YamlOk(fm_lines) THEN ParseFailed(page, ec)
          ELSE StageOk([page EXCEPT !.meta = MetaOf(YamlParse(fm_lines)),
                                    !.frontmatter = YamlParse(fm_lines),
                                    !.content = remainder], ec)

\* DraftFilter::include
DraftFilter(page) ==
    IF "draft" \in DOMAIN page.frontmatter /\ page.frontmatter["draft"].t = "bool"
    THEN page.frontmatter["draft"].v[1] # "true"
    ELSE TRUE

---------------------------------------------------------------------------
(* plugins/markdown.rs                                                     *)

\* MarkdownRenderer::transform; fail: markdown::to_html_with_options erred
\* the targets of the <a> elements markdown::to_html_with_options (GFM)
\* makes of a line of text: an inline link becomes one, a doubled pair of
\* brackets without a definition stays text
MdLinks(l) ==
    CASE l = "Hi [world](world)" -> {"world"}
      [] l = "Hi [[world]]"      -> {}
      [] OTHER                   -> {}

\* the <a> elements of an html string
Anchors(html) ==
    IF html.kind = "html" THEN UNION { MdLinks(html.body[i]) : i \in DOMAIN html.body } ELSE {}

MarkdownStage(page, ec, fail) ==
    IF fail THEN StageErr(page, ec)
    ELSE StageOk([page EXCEPT !.html = Some(MdHtml(page.content))], ec)

---------------------------------------------------------------------------
(* plugins/encryption.rs                                                   *)

\* the lines of a text, joined
RECURSIVE JoinLines(_)
JoinLines(lines) ==
    IF lines = <<>> THEN ""
    ELSE IF Len(lines) = 1 THEN lines[1]
    ELSE lines[1] \o "\n" \o JoinLines(Tail(lines))

\* plaintext_html.as_bytes(): the text of the html the markdown stage made
\* of a body of plain lines, one paragraph
as_bytes(html) == "<p>" \o JoinLines(html.body) \o "</p>\n"

\* PBKDF2_ITERATIONS.to_le_bytes()
IterationBytes == "<120000>"

\* cache_key: the digest over the bytes the hasher is fed, one update after
\* the other: password, plaintext, iteration count, version tag.  The
\* digest is taken to be free of collisions: the key is the text hashed.
CacheKey(password, plaintext) ==
    password \o as_bytes(plaintext) \o IterationBytes \o "AES-256-GCM:v1"

\* where the miss branch can fail: the salt draw, the nonce draw,
\* Aes256Gcm::new_from_slice, cipher.encrypt
CryptoFailPoints == {"salt", "nonce", "cipher", "encrypt"}

\* mutant: a failing crypto call falls back to the unencrypted page
CryptoFailed_Fallback(page, ec) == StageOk(page, ec)

\* .map_err(|e| anyhow!(..))? in the miss branch
CryptoFailed(page, ec) == StageErr(page, ec)

\* mutant: the password stays in the frontmatter
ClearPassword_Kept(fm) == fm

\* page.frontmatter.password = Some(String::new())
ClearPassword(fm) == FmPut(fm, "password", YStr(""))

\* EncryptContent::transform.  ec is ENCRYPT_CACHE (a map from cache key to
\* the stored ciphertext: its salt, its nonce, and the password and
\* plaintext sealed in it); inp.fail names the failing call, inp.salt and
\* inp.nonce are the random draws.
EncryptStage(page, ec, inp) ==
    IF ~("password" \in DOMAIN page.frontmatter) THEN StageOk(page, ec)
    ELSE IF ~IsSome(page.html) THEN StageOk(page, ec)
    ELSE
      LET password == page.frontmatter["password"].v[1]
          plaintext == Get(page.html)
          key == CacheKey(password, plaintext)
          hit == key \in DOMAIN ec
          drawn == [salt |-> inp.salt, nonce |-> inp.nonce, sealed |-> <<password, plaintext>>]
          used == IF hit THEN ec[key] ELSE drawn
          ec2 == IF hit THEN ec
                 ELSE [k \in DOMAIN ec \cup {key} |-> IF k = key THEN drawn ELSE ec[k]]
          fm1 == ClearPassword(page.frontmatter)
          fm2 == FmPut(fm1, "word_count", YNum(ToString(WordCount(plaintext.body))))
          fm3 == FmPut(fm2, "encrypted", YBool(TRUE))
          cipher == [password |-> used.sealed[1], plaintext |-> used.sealed[2],
                     salt |-> used.salt, nonce |-> used.nonce]
      IN  IF ~hit /\ inp.fail \in CryptoFailPoints THEN CryptoFailed(page, ec)
          ELSE StageOk([page EXCEPT !.frontmatter = fm3,
                                    !.html = Some(ShellHtml(cipher))], ec2)


---------------------------------------------------------------------------
(* plugins/mod.rs: PluginRegistry                                          *)

\* mutant: the encryption stage is registered before the renderer
bare_minimum_EncryptFirst == <<"FrontMatter", "EncryptContent", "MarkdownRenderer">>

\* PluginRegistry::bare_minimum().transformers
bare_minimum == <<"FrontMatter", "MarkdownRenderer", "EncryptContent">>

\* mutant: no filter is registered
Filters_None == {}

\* the filters TrellisEngine::new registers: with_filters(vec![DraftFilter])
Filters == {"DraftFilter"}

Include(f, page) == IF f = "DraftFilter" THEN DraftFilter(page) ELSE TRUE

\* mutant: the registered filters are not consulted
allow_Everything(page) == TRUE

\* PluginRegistry::allow
allow(page) == \A f \in Filters : Include(f, page)

\* what one transform call draws from outside the page: the call that
\* fails (if any) and the random salt and nonce
RandMax == 2
FailPoints == {"none", "markdown"} \cup CryptoFailPoints
Inputs == [fail : FailPoints, salt : 1..RandMax, nonce : 1..RandMax]

\* <dyn Transformer>::transform of the named stage
RunStage(name, page, ec, inp) ==
    CASE name = "FrontMatter"      -> FrontMatterStage(page, ec)
      [] name = "MarkdownRenderer" -> MarkdownStage(page, ec, inp.fail = "markdown")
      [] name = "EncryptContent"   -> EncryptStage(page, ec, inp)

RECURSIVE RunRest(_, _, _, _)
RunRest(names, page, ec, inp) ==
    IF names = <<>> THEN StageOk(page, ec)
    ELSE LET r == RunStage(Head(names), page, ec, inp)
         IN  IF ~r.ok THEN r ELSE RunRest(Tail(names), r.page, r.ecache, inp)

\* PluginRegistry::transform as a function: status "some" is Ok(Some(page)),
\* "filtered" is Ok(None), "err" is Err
transform(page, ec, inp) ==
    IF bare_minimum = <<>> THEN [status |-> "some", page |-> page, ecache |-> ec]
    ELSE
      LET first == RunStage(Head(bare_minimum), page, ec, inp)
          rest == RunRest(Tail(bare_minimum), first.page, first.ecache, inp)
      IN  IF ~first.ok THEN [status |-> "err", page |-> page, ecache |-> ec]
          ELSE IF ~allow(first.page)
               THEN [status |-> "filtered", page |-> first.page, ecache |-> first.ecache]
          ELSE IF ~rest.ok THEN [status |-> "err", page |-> first.page, ecache |-> rest.ecache]
          ELSE [status |-> "some", page |-> rest.page, ecache |-> rest.ecache]

---------------------------------------------------------------------------
(* SpecTransform: PluginRegistry::transform, one stage call per step       *)

Docs ==
    { <<>>,
      <<" ">>,
      <<"Hi">>,
      <<"---", "title: Hello", "tags: [a, b]", "---", "Hi there">>,
      <<"---", "draft: true", "---", "Hi">>,
      <<"---", "draft: false", "title: Bye", " ---", "Hi">>,
      <<" ---", "draft: true", "---", "Hi">>,
      <<"---", "title: Hello", "tags: [a,b]", "---", "Hi [[world]]">>,
      <<"Hi [world](world)">>,
      <<"---", "title: 5", "description: About", "created: 2024-01-01T01:00:00+01:00",
        "updated: yesterday", "tags: a", "owner: me", "---", "Hi", "there">>,
      <<"---", "created: 2024-01-01T01:00:00+01:00", "---">>,
      <<"---", "draft: true", "password: pw", "---", "top secret">>,
      <<"---", "password: pw", "owner: me", "---", "top secret">>,
      <<"---", "password: \"\"", "---", "Hi">>,
      <<"---", "title: [x", "---", "Hi">>,
      <<"---", "title: Hello">> }

EmptyCache == [k \in {} |-> [salt |-> 1, nonce |-> 1, sealed |-> <<"", MdHtml(<<>>)>>]]

\* states of ENCRYPT_CACHE a call may find: empty, or holding the result of
\* an earlier encryption of the protected document
SeedCaches ==
    { EmptyCache,
      [k \in {CacheKey("pw", MdHtml(<<"top secret">>))} |->
          [salt |-> 1, nonce |-> 1, sealed |-> <<"pw", MdHtml(<<"top secret">>)>>]] }

TrSlug == <<"posts", "hello">>

TrIdle ==
    /\ tr_in = NewPage(TrSlug, <<>>) /\ tr_page = NewPage(TrSlug, <<>>)
    /\ tr_inp = [fail |-> "none", salt |-> 1, nonce |-> 1]
    /\ tr_ec0 = EmptyCache /\ tr_ec = EmptyCache /\ tr_pc = "done" /\ tr_idx = 1
    /\ tr_ran = <<>> /\ tr_saw = None /\ tr_out = "none"

TrStart ==
    /\ tr_in \in {NewPage(TrSlug, d) : d \in Docs}
    /\ tr_page = tr_in
    /\ tr_inp \in Inputs
    /\ tr_ec0 \in SeedCaches
    /\ tr_ec = tr_ec0
    /\ tr_pc = "first"
    /\ tr_idx = 1
    /\ tr_ran = <<>>
    /\ tr_saw = None
    /\ tr_out = "none"

\* page = first.transform(page)?
TrFirst ==
    /\ tr_pc = "first"
    /\ LET r == RunStage(bare_minimum[1], tr_page, tr_ec, tr_inp)
       IN  /\ tr_ran' = Append(tr_ran, bare_minimum[1])
           /\ tr_page' = r.page
           /\ tr_ec' = r.ecache
           /\ tr_pc' = IF r.ok THEN "filters" ELSE "done"
           /\ tr_out' = IF r.ok THEN "none" ELSE "err"
    /\ tr_idx' = 2
    /\ UNCHANGED <<tr_in, tr_inp, tr_ec0, tr_saw, frVars, memVars, engVars, ecVars, pbVars, cwVars, hmVars, thVars, igVars, cpVars>>

\* if !self.allow(&page) { return Ok(None); }
TrFilters ==
    /\ tr_pc = "filters"
    /\ tr_ran' = Append(tr_ran, "filters")
    /\ tr_saw' = Some(tr_page)
    /\ tr_pc' = IF allow(tr_page) THEN "rest" ELSE "done"
    /\ tr_out' = IF allow(tr_page) THEN "none" ELSE "filtered"
    /\ UNCHANGED <<tr_in, tr_inp, tr_ec0, tr_page, tr_ec, tr_idx, frVars, memVars, engVars, ecVars, pbVars, cwVars, hmVars, thVars, igVars, cpVars>>

\* for transformer in rest { page = transformer.transform(page)?; }
TrRest ==
    /\ tr_pc = "rest"
    /\ tr_idx <= Len(bare_minimum)
    /\ LET r == RunStage(bare_minimum[tr_idx], tr_page, tr_ec, tr_inp)
       IN  /\ tr_ran' = Append(tr_ran, bare_minimum[tr_idx])
           /\ tr_page' = r.page
           /\ tr_ec' = r.ecache
           /\ tr_pc' = IF r.ok THEN "rest" ELSE "done"
           /\ tr_out' = IF r.ok THEN "none" ELSE "err"
    /\ tr_idx' = tr_idx + 1
    /\ UNCHANGED <<tr_in, tr_inp, tr_ec0, tr_saw, frVars, memVars, engVars, ecVars, pbVars, cwVars, hmVars, thVars, igVars, cpVars>>

\* Ok(Some(page))
TrReturn ==
    /\ tr_pc = "rest"
    /\ tr_idx > Len(bare_minimum)
    /\ tr_pc' = "done"
    /\ tr_out' = "some"
    /\ UNCHANGED <<tr_in, tr_inp, tr_ec0, tr_page, tr_ec, tr_idx, tr_ran, tr_saw, frVars, memVars, engVars, ecVars, pbVars, cwVars, hmVars, thVars, igVars, cpVars>>

TrNext == TrFirst \/ TrFilters \/ TrRest \/ TrReturn


\* the stage calls of the run so far, the filter evaluation left out
TrStages == SelectSeq(tr_ran, LAMBDA e : e # "filters")

IsPrefix(a, b) == Len(a) <= Len(b) /\ a = SubSeq(b, 1, Len(a))

\* the step-by-step run ends as the function does
TrAgrees ==
    tr_pc = "done" =>
        LET t == transform(tr_in, tr_ec0, tr_inp)
        IN  /\ tr_out = t.status
            /\ tr_out = "some" => tr_page = t.page
            /\ tr_ec = t.ecache

StageOrder == <<"FrontMatter", "MarkdownRenderer", "EncryptContent">>

\* the FrontMatter stage applied to the call's input
TrFm == FrontMatterStage(tr_in, tr_ec0)

\* C6: for every page that passes the filters, transform runs the stages
\* exactly once each in the order FrontMatter, MarkdownRenderer,
\* EncryptContent (the stage calls made so far are always a prefix of that
\* list, and the whole list when the call returns Some); an error from a
\* stage ends the call with that stage as the last one run.
C6_StagesOnceInOrder ==
    /\ IsPrefix(TrStages, StageOrder)
    /\ tr_out = "some" => TrStages = StageOrder
    /\ tr_out = "err" =>
          /\ tr_pc = "done"
          /\ Len(TrStages) = 1 => ~TrFm.ok
          /\ Len(TrStages) = 2 => tr_inp.fail = "markdown"
          /\ Len(TrStages) = 3 => tr_inp.fail \in CryptoFailPoints
    /\ (tr_pc = "done" /\ ~TrFm.ok) => (tr_out = "err" /\ TrStages = <<"FrontMatter">>)
    /\ (tr_pc = "done" /\ TrFm.ok /\ DraftFilter(TrFm.page) /\ tr_inp.fail = "markdown")
          => (tr_out = "err" /\ TrStages = <<"FrontMatter", "MarkdownRenderer">>)

\* a protected page went through all three stages
C6_Witness ==
    /\ tr_out = "some"
    /\ IsSome(tr_page.html) /\ Get(tr_page.html).kind = "encrypted-note"
    /\ tr_page.meta.title = None

\* C7: the filters are evaluated once, directly after the FrontMatter stage
\* and on its output, before MarkdownRenderer and EncryptContent; a page the
\* draft filter rejects is discarded with Ok(None) and no later stage run,
\* a page it accepts is transformed by all later stages unless one fails.
C7_FiltersAfterFrontMatter ==
    /\ \A i \in DOMAIN tr_ran : tr_ran[i] = "filters" <=> i = 2
    /\ Len(tr_ran) >= 1 => tr_ran[1] = "FrontMatter"
    /\ Len(tr_ran) >= 2 => (TrFm.ok /\ tr_saw = Some(TrFm.page))
    /\ tr_pc = "done" =>
          /\ tr_out = "filtered" <=> (TrFm.ok /\ ~DraftFilter(TrFm.page))
          /\ tr_out = "filtered" => (tr_ran = <<"FrontMatter", "filters">> /\ tr_page.html = None)
          /\ tr_out = "some" =>
                tr_ran = <<"FrontMatter", "filters", "MarkdownRenderer", "EncryptContent">>
          /\ (TrFm.ok /\ DraftFilter(TrFm.page) /\ tr_inp.fail = "none") => tr_out = "some"

\* a draft that also sets a password was discarded before rendering
C7_Witness ==
    /\ tr_pc = "done" /\ tr_out = "filtered"
    /\ "password" \in DOMAIN tr_page.frontmatter
    /\ tr_page.frontmatter["password"] = YStr("pw")

\* C28: for a page whose content does not start with a line that is exactly
\* "---", the FrontMatter stage succeeds and returns the page as it was:
\* content unchanged, frontmatter mapping empty, title, description and
\* tags unset; the filters see that page.
C28_NoDelimiterLeavesPage ==
    (tr_ran # <<>> /\ (tr_in.content = <<>> \/ tr_in.content[1] # "---")) =>
        /\ tr_ran[1] = "FrontMatter"
        /\ Len(tr_ran) = 1 => (tr_pc = "filters" /\ tr_out = "none" /\ tr_page = tr_in)
        /\ IsSome(tr_saw) => Get(tr_saw) = tr_in
        /\ tr_page.content = tr_in.content
        /\ tr_page.frontmatter = NoFrontmatter
        /\ tr_page.meta = DefaultMeta

\* the stage has run on a page whose first line differs from the delimiter
\* by a leading blank only and is followed by a well-formed block
C28_Witness ==
    /\ tr_ran = <<"FrontMatter">>
    /\ tr_in.content = <<" ---", "draft: true", "---", "Hi">>

\* the frontmatter block of the call's input read off its lines: the index
\* of the closing line, the lines between, the table entries they are
InClosers == { i \in 2..Len(tr_in.content) : Trim(tr_in.content[i]) = "---" }
InClose == IF InClosers = {} THEN Len(tr_in.content) + 1
           ELSE CHOOSE i \in InClosers : \A j \in InClosers : i <= j
InBlock == SubSeq(tr_in.content, 2, InClose - 1)
InEntries == { e \in YamlTable : \E i \in DOMAIN InBlock : InBlock[i] = e[1] }
InValue(k) == { e[3] : e \in { x \in InEntries : x[2] = k } }

\* the strings of this model that are RFC3339 timestamps
Rfc3339 == { "2024-01-01T01:00:00+01:00", "2024-01-01T00:00:00Z" }

\* C31: on content whose first line is exactly "---", FrontMatter reads the
\* lines up to the first line that is "---" after trimming as a key/value
\* document; every key of it is in the frontmatter mapping with its value;
\* title and description are set exactly from string values, created and
\* updated exactly from strings that are RFC3339 timestamps, tags exactly
\* from a sequence, any other value leaving the field unset with no error;
\* content becomes the lines after the closing line, and is empty when no
\* line closes the block.
C31_FrontMatterParsesBlock ==
    (/\ tr_ran = <<"FrontMatter">>
     /\ tr_in.content # <<>> /\ tr_in.content[1] = "---"
     /\ \A i \in DOMAIN InBlock : \E e \in YamlTable : e[1] = InBlock[i]) =>
        /\ tr_out = "none" /\ tr_pc = "filters"
        /\ DOMAIN tr_page.frontmatter = { e[2] : e \in InEntries }
        /\ \A e \in InEntries : tr_page.frontmatter[e[2]] = e[3]
        /\ \A k \in {"title", "description"} :
              tr_page.meta[k] =
                 IF \E v \in InValue(k) : v.t = "string"
                 THEN Some((CHOOSE v \in InValue(k) : TRUE).v[1]) ELSE None
        /\ \A k \in {"created", "updated"} :
              /\ IsSome(tr_page.meta[k]) <=>
                    \E v \in InValue(k) : v.t = "string" /\ v.v[1] \in Rfc3339
              /\ IsSome(tr_page.meta[k]) => Get(tr_page.meta[k]) = "2024-01-01T00:00:00Z"
        /\ tr_page.meta.tags =
              IF \E v \in InValue("tags") : v.t = "sequence"
              THEN Some((CHOOSE v \in InValue("tags") : TRUE).v) ELSE None
        /\ tr_page.content = SubSeq(tr_in.content, InClose + 1, Len(tr_in.content))
        /\ InClosers = {} => tr_page.content = <<>>
        /\ tr_page.slug = tr_in.slug /\ tr_page.html = None

\* the stage has read a block with an unknown key, a number as title, a
\* string as tags, a timestamp with an offset and one that does not parse
C31_Witness ==
    /\ tr_ran = <<"FrontMatter">>
    /\ tr_in.content # <<>> /\ tr_in.content[1] = "---"
    /\ {"owner", "title", "tags", "created", "updated", "description"}
           \subseteq DOMAIN tr_page.frontmatter
    /\ tr_page.meta.title = None /\ tr_page.meta.tags = None
    /\ tr_page.meta.updated = None
    /\ IsSome(tr_page.meta.created) /\ IsSome(tr_page.meta.description)
    /\ tr_page.content = <<"Hi", "there">>

\* the source of the end-to-end example
HelloDoc == <<"---", "title: Hello", "tags: [a,b]", "---", "Hi [[world]]">>

\* C30 (as claimed): the chain run for slug posts/hello on a source with
\* frontmatter title: Hello, tags: [a,b] and body "Hi [[world]]" returns a
\* page that converts to a RenderedPage with title "Hello", tags a and b,
\* and html in which the [[world]] reference is an <a> link.
C30_HelloRendersLink ==
    (tr_out = "some" /\ tr_in.slug = <<"posts", "hello">> /\ tr_in.content = HelloDoc) =>
        /\ IntoRendered(tr_page).meta.title = Some("Hello")
        /\ IntoRendered(tr_page).meta.tags = Some(<<"a", "b">>)
        /\ "world" \in Anchors(IntoRendered(tr_page).html)

\* what holds: the metadata is as said and the html is the rendering of
\* the body with the reference left as text; an inline link does become <a>
HelloKeepsBrackets ==
    /\ (tr_out = "some" /\ tr_in.content = HelloDoc) =>
          /\ IntoRendered(tr_page).meta.title = Some("Hello")
          /\ IntoRendered(tr_page).meta.tags = Some(<<"a", "b">>)
          /\ IntoRendered(tr_page).html = MdHtml(<<"Hi [[world]]">>)
          /\ Anchors(IntoRendered(tr_page).html) = {}
    /\ (tr_out = "some" /\ tr_in.content = <<"Hi [world](world)">>) =>
          Anchors(IntoRendered(tr_page).html) = {"world"}

\* the password the frontmatter of the call's input sets, if any
TrPassword ==
    IF TrFm.ok /\ "password" \in DOMAIN TrFm.page.frontmatter
    THEN Some(TrFm.page.frontmatter["password"].v[1]) ELSE None

\* the rendered page carries the string: as a frontmatter value, or in a
\* line of its html that sets it
Carries(rendered, str) ==
    \/ \E k \in DOMAIN rendered.frontmatter : str \in Range(rendered.frontmatter[k].v)
    \/ \E i \in DOMAIN rendered.html.body :
          /\ IsYamlEntry(rendered.html.body[i])
          /\ YamlEntry(rendered.html.body[i])[3] = YStr(str)

\* C12: every Page PluginRegistry::transform returns has its password absent
\* or empty, and the RenderedPage made of it (whose html is what render_page
\* writes to the cache file) carries the password of the source's
\* frontmatter neither in a frontmatter value nor in its html.
C12_NoRawPasswordReturned ==
    tr_out = "some" =>
        /\ \/ "password" \notin DOMAIN tr_page.frontmatter
           \/ tr_page.frontmatter["password"] = YStr("")
        /\ (IsSome(TrPassword) /\ Get(TrPassword) # "") =>
              ~Carries(IntoRendered(tr_page), Get(TrPassword))

\* a page that set a password was returned with the password emptied
C12_Witness ==
    /\ tr_out = "some"
    /\ TrPassword = Some("pw")
    /\ tr_page.frontmatter["password"] = YStr("")
    /\ tr_page.frontmatter["owner"] = YStr("me")

\* C13 (as claimed): for a page whose password is absent or the empty
\* string EncryptContent is a no-op: the page transform returns has the html
\* of the markdown stage, no encrypted flag and no word count, and
\* ENCRYPT_CACHE is as before the call (no salt or nonce was drawn).
C13_NoOpWithoutPassword ==
    (tr_out = "some" /\ (TrPassword = None \/ TrPassword = Some(""))) =>
        /\ tr_page.html = Some(MdHtml(TrFm.page.content))
        /\ "encrypted" \notin DOMAIN tr_page.frontmatter
        /\ "word_count" \notin DOMAIN tr_page.frontmatter
        /\ tr_ec = tr_ec0

\* what the code does: the stage is a no-op exactly when no password key is
\* present; any present password, the empty string included, encrypts
C13_Exact ==
    tr_out = "some" =>
        /\ TrPassword = None =>
              /\ tr_page.html = Some(MdHtml(TrFm.page.content))
              /\ tr_page.frontmatter = TrFm.page.frontmatter
              /\ tr_ec = tr_ec0
        /\ TrPassword # None =>
              /\ Get(tr_page.html).kind = "encrypted-note"
              /\ tr_page.frontmatter["encrypted"] = YBool(TRUE)

---------------------------------------------------------------------------
(* SpecScripts, SpecMem: the process-wide caches behind RwLocks. bundler.rs*)
(* inline_scripts, handlers.rs build_nav_from_content, styles.rs           *)
(* compiled_styles, each called by concurrent request handlers while the   *)
(* watched directories change.  A section under a lock is one step.        *)

\* request handlers running at once
MemProcs == {1, 2}
\* the last tick a watched directory's newest mtime may show
MemMaxTime == 2
MemTimes == UNIX_EPOCH .. MemMaxTime

\* the watched trees: templates/{util,components/scripts}, the content root,
\* templates/assets/styles
Watched == {"templates", "content", "styles"}

MpIdle == [pc |-> "idle", ts |-> UNIX_EPOCH, val |-> UNIX_EPOCH]

\* ScriptsCache { bundles: HashMap::new(), mtime: UNIX_EPOCH } and
\* NavCache { mtime: UNIX_EPOCH, nav: Vec::new() }; the content of an entry
\* is named by the state of the tree it was computed from, None for the
\* empty initial content
EmptyEntry == [mtime |-> UNIX_EPOCH, data |-> None]

MemIdle ==
    /\ dirs = [d \in Watched |-> UNIX_EPOCH]
    /\ SCRIPTS = EmptyEntry /\ NAV_CACHE = EmptyEntry /\ STYLES = None
    /\ mp = [p \in MemProcs |-> MpIdle]
    /\ skipped = {}

\* the directories a specification watches start at any time; the others
\* stay at rest
MemStart(watched) ==
    /\ dirs \in {f \in [Watched -> MemTimes] : \A d \in Watched \ watched : f[d] = UNIX_EPOCH}
    /\ SCRIPTS = EmptyEntry
    /\ NAV_CACHE = EmptyEntry
    /\ STYLES = None
    /\ mp = [p \in MemProcs |-> MpIdle]
    /\ skipped = {}

\* a file of a watched tree is written, touched or removed: the tree's
\* newest mtime moves
MemTouch(d, t) ==
    /\ t # dirs[d]
    /\ dirs' = [dirs EXCEPT ![d] = t]
    /\ UNCHANGED <<SCRIPTS, NAV_CACHE, STYLES, mp, skipped, frVars, trVars, engVars, ecVars, pbVars, cwVars, hmVars, thVars, igVars, cpVars>>

MemGoto(p, pc, ts, val) == mp' = [mp EXCEPT ![p] = [pc |-> pc, ts |-> ts, val |-> val]]

----
\* inline_scripts: let newest_mtime = newest_templates_mtime()
ScriptsEnter(p) ==
    /\ mp[p].pc = "idle"
    /\ MemGoto(p, "sc_check", dirs["templates"], UNIX_EPOCH)
    /\ UNCHANGED <<dirs, SCRIPTS, NAV_CACHE, STYLES, skipped, frVars, trVars, engVars, ecVars, pbVars, cwVars, hmVars, thVars, igVars, cpVars>>

\* cache.read(): if cache_guard.mtime >= newest_mtime { return .. }
ScriptsCheck(p) ==
    /\ mp[p].pc = "sc_check"
    /\ IF SCRIPTS.mtime >= mp[p].ts
       THEN mp' = [mp EXCEPT ![p] = MpIdle]
       ELSE MemGoto(p, "sc_build", mp[p].ts, UNIX_EPOCH)
    /\ UNCHANGED <<dirs, SCRIPTS, NAV_CACHE, STYLES, skipped, frVars, trVars, engVars, ecVars, pbVars, cwVars, hmVars, thVars, igVars, cpVars>>

\* build_all_bundles(): latest = newest_templates_mtime(), raised to the
\* mtime of every entry bundled (the entries lie in the scanned tree)
ScriptsBuild(p) ==
    /\ mp[p].pc = "sc_build"
    /\ MemGoto(p, "sc_store", dirs["templates"], dirs["templates"])
    /\ UNCHANGED <<dirs, SCRIPTS, NAV_CACHE, STYLES, skipped, frVars, trVars, engVars, ecVars, pbVars, cwVars, hmVars, thVars, igVars, cpVars>>

\* cache.write(): cache_guard.bundles = bundles; cache_guard.mtime = mtime
\* (noted: the call has stored bundles built from the templates as they are)
ScriptsStore(p) ==
    /\ mp[p].pc = "sc_store"
    /\ SCRIPTS' = [mtime |-> mp[p].ts, data |-> Some(mp[p].val)]
    /\ mp' = [mp EXCEPT ![p] = MpIdle]
    /\ skipped' = IF mp[p].ts = dirs["templates"] THEN skipped \cup {"scripts rebuilt"} ELSE skipped
    /\ UNCHANGED <<dirs, NAV_CACHE, STYLES, frVars, trVars, engVars, ecVars, pbVars, cwVars, hmVars, thVars, igVars, cpVars>>

----
\* build_nav_from_content: let latest = latest_mtime_recursive(..)
NavEnter(p) ==
    /\ mp[p].pc = "idle"
    /\ MemGoto(p, "nv_check", dirs["content"], UNIX_EPOCH)
    /\ UNCHANGED <<dirs, SCRIPTS, NAV_CACHE, STYLES, skipped, frVars, trVars, engVars, ecVars, pbVars, cwVars, hmVars, thVars, igVars, cpVars>>

\* cache.read(): if guard.mtime >= latest { Some(guard.nav.clone()) }
NavCheck(p) ==
    /\ mp[p].pc = "nv_check"
    /\ IF NAV_CACHE.mtime >= mp[p].ts
       THEN mp' = [mp EXCEPT ![p] = MpIdle]
       ELSE MemGoto(p, "nv_compute", mp[p].ts, UNIX_EPOCH)
    /\ UNCHANGED <<dirs, SCRIPTS, NAV_CACHE, STYLES, skipped, frVars, trVars, engVars, ecVars, pbVars, cwVars, hmVars, thVars, igVars, cpVars>>

\* let computed = compute_nav(..)
NavCompute(p) ==
    /\ mp[p].pc = "nv_compute"
    /\ MemGoto(p, "nv_store", mp[p].ts, dirs["content"])
    /\ UNCHANGED <<dirs, SCRIPTS, NAV_CACHE, STYLES, skipped, frVars, trVars, engVars, ecVars, pbVars, cwVars, hmVars, thVars, igVars, cpVars>>

\* mutant: the navigation is stored whatever the cache holds
NavMayReplace_Always(latest, stored) == TRUE

\* if latest >= guard.mtime
NavMayReplace(latest, stored) == latest >= stored

\* cache.write(): only replace if fresher
NavStore(p) ==
    /\ mp[p].pc = "nv_store"
    /\ IF NavMayReplace(mp[p].ts, NAV_CACHE.mtime)
       THEN /\ NAV_CACHE' = [mtime |-> mp[p].ts, data |-> Some(mp[p].val)]
            /\ UNCHANGED skipped
       ELSE /\ skipped' = skipped \cup {"nav"}
            /\ UNCHANGED NAV_CACHE
    /\ mp' = [mp EXCEPT ![p] = MpIdle]
    /\ UNCHANGED <<dirs, SCRIPTS, STYLES, frVars, trVars, engVars, ecVars, pbVars, cwVars, hmVars, thVars, igVars, cpVars>>

----
\* compiled_styles: let scss_mtime = latest_scss_mtime()
StylesEnter(p) ==
    /\ mp[p].pc = "idle"
    /\ MemGoto(p, "st_init", dirs["styles"], UNIX_EPOCH)
    /\ UNCHANGED <<dirs, SCRIPTS, NAV_CACHE, STYLES, skipped, frVars, trVars, engVars, ecVars, pbVars, cwVars, hmVars, thVars, igVars, cpVars>>

\* STYLES.get_or_init(|| StylesCache { css: compile_scss(cfg), mtime: scss_mtime })
StylesInit(p) ==
    /\ mp[p].pc = "st_init"
    /\ STYLES' = IF IsSome(STYLES) THEN STYLES
                 ELSE Some([mtime |-> mp[p].ts, data |-> Some(dirs["styles"])])
    /\ MemGoto(p, "st_check", mp[p].ts, UNIX_EPOCH)
    /\ UNCHANGED <<dirs, SCRIPTS, NAV_CACHE, skipped, frVars, trVars, engVars, ecVars, pbVars, cwVars, hmVars, thVars, igVars, cpVars>>

\* cache.read(): if guard.mtime >= scss_mtime { return guard.css.clone() }
StylesCheck(p) ==
    /\ mp[p].pc = "st_check"
    /\ IF Get(STYLES).mtime >= mp[p].ts
       THEN mp' = [mp EXCEPT ![p] = MpIdle]
       ELSE MemGoto(p, "st_store", mp[p].ts, UNIX_EPOCH)
    /\ UNCHANGED <<dirs, SCRIPTS, NAV_CACHE, STYLES, skipped, frVars, trVars, engVars, ecVars, pbVars, cwVars, hmVars, thVars, igVars, cpVars>>

\* mutant: the recompiled sheet is stored whatever the cache holds
StylesMayReplace_Always(scss_mtime, stored) == TRUE

\* if guard.mtime < scss_mtime
StylesMayReplace(scss_mtime, stored) == stored < scss_mtime

\* cache.write(): recompile and store if still older
StylesStore(p) ==
    /\ mp[p].pc = "st_store"
    /\ IF StylesMayReplace(mp[p].ts, Get(STYLES).mtime)
       THEN /\ STYLES' = Some([mtime |-> mp[p].ts, data |-> Some(dirs["styles"])])
            /\ UNCHANGED skipped
       ELSE /\ skipped' = skipped \cup {"styles"}
            /\ UNCHANGED STYLES
    /\ mp' = [mp EXCEPT ![p] = MpIdle]
    /\ UNCHANGED <<dirs, SCRIPTS, NAV_CACHE, frVars, trVars, engVars, ecVars, pbVars, cwVars, hmVars, thVars, igVars, cpVars>>

\* a template file is edited: the tree's newest mtime moves forward, and
\* no call has rebuilt the templates as they are now
TemplatesEdited(t) ==
    /\ t > dirs["templates"]
    /\ dirs' = [dirs EXCEPT !["templates"] = t]
    /\ skipped' = skipped \ {"scripts rebuilt"}
    /\ UNCHANGED <<SCRIPTS, NAV_CACHE, STYLES, mp, frVars, trVars, engVars, ecVars, pbVars, cwVars, hmVars, thVars, igVars, cpVars>>

ScNext ==
    \/ \E t \in MemTimes : TemplatesEdited(t)
    \/ \E p \in MemProcs :
          ScriptsEnter(p) \/ ScriptsCheck(p) \/ ScriptsBuild(p) \/ ScriptsStore(p)

MemNext ==
    \/ \E d \in {"content", "styles"}, t \in MemTimes : MemTouch(d, t)
    \/ \E p \in MemProcs :
          \/ NavEnter(p) \/ NavCheck(p) \/ NavCompute(p) \/ NavStore(p)
          \/ StylesEnter(p) \/ StylesInit(p) \/ StylesCheck(p) \/ StylesStore(p)

\* C4 (as claimed): the mtime stored in ScriptsCache never decreases, so of
\* two rebuilds with timestamps F1 < F2 the F2 entry is the one left.
C4_ScriptsMtimeMonotone == [][SCRIPTS'.mtime >= SCRIPTS.mtime]_vars

\* C32 (as claimed): once a call of inline_scripts has rebuilt the bundles
\* from the templates as they are and stored them, the stored mtime is at
\* least the newest template mtime, so that the next call is a hit as long
\* as no template changes.
C32_RebuildMakesNextCallHit ==
    "scripts rebuilt" \in skipped => SCRIPTS.mtime >= dirs["templates"]

\* what holds of each call: it returns the stored bundles without a rebuild
\* exactly when the stored mtime is at least the newest mtime it read; a
\* rebuild takes a timestamp at least that mtime, and the store puts the
\* bundles under that timestamp, whatever the cache holds by then
ScriptsFreshnessRule ==
    [][\A p \in MemProcs :
          /\ (mp[p].pc = "sc_check" /\ mp'[p] # mp[p]) =>
                /\ mp'[p].pc = "idle" <=> SCRIPTS.mtime >= mp[p].ts
                /\ mp'[p].pc = "sc_build" <=> SCRIPTS.mtime < mp[p].ts
                /\ SCRIPTS' = SCRIPTS
          /\ (mp[p].pc = "sc_build" /\ mp'[p] # mp[p]) =>
                (mp'[p].pc = "sc_store" /\ mp'[p].ts >= mp[p].ts)
          /\ (mp[p].pc = "sc_store" /\ mp'[p] # mp[p]) =>
                SCRIPTS' = [mtime |-> mp[p].ts, data |-> Some(mp[p].val)] ]_vars

\* a writer at the write lock of the named cache, with its timestamp
MemWriter(pc, ts) == \E p \in MemProcs : mp[p].pc = pc /\ mp[p].ts = ts

\* C5: NAV_CACHE and STYLES replace their entry only for a writer whose
\* freshness timestamp is at least the stored one, so their stored mtime
\* never decreases and an older computation never overwrites a newer entry.
C5_NavStylesMonotone ==
    [][ /\ NAV_CACHE'.mtime >= NAV_CACHE.mtime
        /\ NAV_CACHE' # NAV_CACHE =>
              (MemWriter("nv_store", NAV_CACHE'.mtime) /\ NAV_CACHE'.mtime >= NAV_CACHE.mtime)
        /\ (IsSome(STYLES) /\ STYLES' # STYLES) =>
              /\ IsSome(STYLES')
              /\ MemWriter("st_store", Get(STYLES').mtime)
              /\ Get(STYLES').mtime >= Get(STYLES).mtime ]_vars

\* in both caches a writer holding an older timestamp has met a newer entry
\* and left it in place
C5_Witness ==
    /\ skipped = {"nav", "styles"}
    /\ NAV_CACHE.mtime > UNIX_EPOCH
    /\ IsSome(STYLES) /\ Get(STYLES).mtime > UNIX_EPOCH

\* what the code computes for every input: the claimed relation, with the
\* empty dependency list standing for UNIX_EPOCH
FrExact ==
    IsSome(fr_out) =>
        /\ Get(fr_out).ok <=> (IsSome(fr_src) /\ IsSome(fr_cached))
        /\ (Get(fr_out).ok /\ Get(fr_out).val)
             <=> ( /\ IsSome(fr_src)
                   /\ IsSome(fr_cached)
                   /\ Get(fr_cached) >= Get(fr_src)
                   /\ \A i \in DOMAIN fr_deps : Get(fr_cached) >= fr_deps[i]
                   /\ fr_deps = <<>> => Get(fr_cached) >= UNIX_EPOCH )


---------------------------------------------------------------------------
(* Spec: renderer.rs TrellisEngine over a shared file system.  Request     *)
(* handlers call render_page and page_exists concurrently; an editor       *)
(* writes and removes source files, and style sheets, the binary and the   *)
(* configuration file change, while the clock advances.  A call is split   *)
(* at its accesses to the file system; what lies between two accesses      *)
(* belongs to the step of the earlier one.                                 *)

Procs == {1, 2}

\* SiteConfig.configuration.ignore_patterns
ignore_patterns == {"private"}

\* slugs requested; a slug is the sequence of its path segments
Slugs == { <<"posts", "hello">>, <<"private", "secret">> }

\* Path::extension of a segment is none
NoExtension(seg) ==
    seg \in {"posts", "hello", "private", "secret", "a", "b", "c", "page filtered out by plugins"}

\* Path::with_extension("md")
WithMd(seg) ==
    CASE seg = "hello"   -> "hello.md"
      [] seg = "secret"  -> "secret.md"
      [] seg = "posts"   -> "posts.md"
      [] seg = "private" -> "private.md"
      [] seg = "a"       -> "a.md"
      [] seg = "b"       -> "b.md"
      [] seg = "c"       -> "c.md"
      [] seg = "page filtered out by plugins" -> "page filtered out by plugins.md"
      [] OTHER           -> seg

\* TrellisEngine::source_path_for, relative to the content root
source_path_for(slug) ==
    IF slug # <<>> /\ NoExtension(slug[Len(slug)])
    THEN [slug EXCEPT ![Len(slug)] = WithMd(slug[Len(slug)])]
    ELSE slug

\* mutant: only the file name is compared with the patterns
is_ignored_path_FileNameOnly(rel) ==
    rel # <<>> /\ rel[Len(rel)] \in ignore_patterns

\* TrellisEngine::is_ignored_path, on the path relative to the content root
is_ignored_path(rel) == \E i \in DOMAIN rel : rel[i] \in ignore_patterns

\* TrellisEngine::is_ignored_slug
is_ignored_slug(slug) == is_ignored_path(source_path_for(slug))

----
\* files: a missing file has exists = FALSE
NoFile == [exists |-> FALSE, content |-> <<>>, mtime |-> UNIX_EPOCH]
File(c, t) == [exists |-> TRUE, content |-> c, mtime |-> t]
NoCacheFile == [exists |-> FALSE, content |-> NoContentHtml, mtime |-> UNIX_EPOCH]
NoMarker == [exists |-> FALSE, content |-> "", mtime |-> UNIX_EPOCH]

\* fs::metadata(path).modified()
Mtime(f) == IF f.exists THEN Some(f.mtime) ELSE None

\* documents the editor writes
EngineDocs ==
    { <<" ">>,
      <<"---", "title: Hello", "tags: [a, b]", "---", "Hi there">>,
      <<"---", "draft: true", "---", "Hi">>,
      <<"---", "draft: false", "---", "Hi">>,
      <<"---", "title: [x", "---", "Hi">>,
      <<"---", "password: pw", "---", "top secret">> }

\* the dependencies read as plain file times
DepFiles == {"styles", "binary", "config"}

\* theme_hash(&self.config.configuration.theme) of the running configuration,
\* and the hash an earlier run may have left in the marker
ThemeHashes == {"theme-a", "theme-b"}

\* how many times the editor and the deployment act in one run
MaxEdits == 1

\* the last reading of the clock
MaxNow == 2

\* what a call to the registry may meet: each failure, and the random source
\* read once for the salt and the nonce
EngineInputs == { inp \in Inputs : inp.salt = inp.nonce /\ inp.fail \in {"none", "markdown", "encrypt"} }

\* the slugs whose source the editor works on
Editable == { <<"posts", "hello">> }

\* handlers are interchangeable: of two free handlers the first takes the
\* next call
MayStart(p) == \A q \in Procs : q < p => rp[q].pc # "idle"

----
\* results of a call
NoRendered == IntoRendered(NewPage(<<>>, <<>>))
Res(kind, page) == [kind |-> kind, page |-> page]
NoRes == Res("none", NoRendered)

\* how good the source has been at any moment of a call: missing, only
\* white space ("blank"), or with content ("good")
SourceState(f) ==
    IF ~f.exists THEN "missing" ELSE IF IsBlank(f.content) THEN "blank" ELSE "good"
Better(a, b) ==
    IF a = "good" \/ b = "good" THEN "good"
    ELSE IF a = "blank" \/ b = "blank" THEN "blank" ELSE "missing"

\* a handler at rest
RpIdle ==
    [op |-> "none", pc |-> "idle", slug |-> <<>>, deps |-> <<>>, use_cache |-> FALSE,
     obs |-> None, loaded |-> None, page |-> NewPage(<<>>, <<>>), res |-> NoRes,
     read |-> None, wrote |-> None, seen |-> "missing", why |-> "none"]

EngIdle ==
    /\ now = UNIX_EPOCH
    /\ source = [s \in Slugs |-> NoFile]
    /\ cachef = [s \in Slugs |-> NoCacheFile]
    /\ theme_marker = NoMarker
    /\ depfile = [d \in DepFiles |-> UNIX_EPOCH]
    /\ theme = "theme-a"
    /\ ENCRYPT_CACHE = EmptyCache
    /\ rp = [p \in Procs |-> RpIdle]
    /\ budget = 0

\* what earlier runs may have left for a slug: no files, a source never
\* rendered, a source with the cache file of its rendering (fresh, or older
\* than the source), a cache file whose source is gone
HiSource == File(<<"Hi">>, UNIX_EPOCH + 1)
HiCache(t) == File(MdHtml(<<"Hi">>), t)
LeftBehind(s) ==
    IF s \notin Editable
    THEN { <<NoFile, HiCache(UNIX_EPOCH)>>, <<HiSource, HiCache(UNIX_EPOCH + 1)>> }
    ELSE { <<NoFile, NoCacheFile>>, <<HiSource, NoCacheFile>>, <<HiSource, HiCache(UNIX_EPOCH)>> }

\* the state a server starts in: the files of earlier runs (also for slugs
\* the configuration now ignores), the theme marker of an earlier run, an
\* empty ENCRYPT_CACHE
EngStart ==
    /\ now = UNIX_EPOCH + 1
    /\ \E left \in [Slugs -> UNION {LeftBehind(s) : s \in Slugs}] :
          /\ \A s \in Slugs : left[s] \in LeftBehind(s)
          /\ source = [s \in Slugs |-> left[s][1]]
          /\ cachef = [s \in Slugs |-> left[s][2]]
    /\ theme_marker \in {NoMarker, [exists |-> TRUE, content |-> "theme-a", mtime |-> UNIX_EPOCH]}
    /\ depfile = [d \in DepFiles |-> UNIX_EPOCH]
    /\ theme = "theme-b"
    /\ ENCRYPT_CACHE = EmptyCache
    /\ rp = [p \in Procs |-> RpIdle]
    /\ budget = MaxEdits

----
\* the environment

\* a call in progress notes the best state its source has had
Note(s, f) ==
    [p \in Procs |->
        IF rp[p].pc \notin {"idle", "done"} /\ rp[p].slug = s
        THEN [rp[p] EXCEPT !.seen = Better(@, SourceState(f))]
        ELSE rp[p]]

Tick ==
    /\ now < MaxNow
    /\ now' = now + 1
    /\ UNCHANGED <<source, cachef, theme_marker, depfile, theme, ENCRYPT_CACHE, rp, budget,
                   frVars, trVars, memVars, ecVars, pbVars, cwVars, hmVars, thVars, igVars, cpVars>>

EditSource(s, d) ==
    /\ budget > 0
    /\ source[s] # File(d, now)
    /\ source' = [source EXCEPT ![s] = File(d, now)]
    /\ rp' = Note(s, File(d, now))
    /\ budget' = budget - 1
    /\ UNCHANGED <<now, cachef, theme_marker, depfile, theme, ENCRYPT_CACHE, frVars, trVars, memVars, ecVars, pbVars, cwVars, hmVars, thVars, igVars, cpVars>>

DeleteSource(s) ==
    /\ budget > 0
    /\ source[s].exists
    /\ source' = [source EXCEPT ![s] = NoFile]
    /\ budget' = budget - 1
    /\ UNCHANGED <<now, cachef, theme_marker, depfile, theme, ENCRYPT_CACHE, rp, frVars, trVars, memVars, ecVars, pbVars, cwVars, hmVars, thVars, igVars, cpVars>>

TouchDep(d) ==
    /\ budget > 0
    /\ depfile[d] # now
    /\ depfile' = [depfile EXCEPT ![d] = now]
    /\ budget' = budget - 1
    /\ UNCHANGED <<now, source, cachef, theme_marker, theme, ENCRYPT_CACHE, rp, frVars, trVars, memVars, ecVars, pbVars, cwVars, hmVars, thVars, igVars, cpVars>>

----
\* cache.rs: update_hash_marker at time t; the marker after the call and the
\* mtime returned
\* mutant: the marker is rewritten only when it is there and differs
needs_write_OnlyIfPresent(m, hash) == m.exists /\ Trim(m.content) # hash

\* needs_write after `if let Ok(existing) = fs::read_to_string(&marker)`
needs_write(m, hash) == ~(m.exists /\ Trim(m.content) = hash)

\* the marker after fs::write(&marker, hash) at time t
Marked(hash, t) == [exists |-> TRUE, content |-> hash, mtime |-> t]

\* fs::metadata(&marker).and_then(|m| m.modified()).or(Ok(UNIX_EPOCH))
MarkerTime(m) == IF m.exists THEN m.mtime ELSE UNIX_EPOCH

\* mutant: the mtime is read before the marker is written
MarkerResult_StatFirst(m, m2, wrote) == [marker |-> m2, mtime |-> MarkerTime(m), wrote |-> wrote]

\* what a call leaves and returns: m is the marker it found, m2 the marker
\* after its write, if any
MarkerResult(m, m2, wrote) == [marker |-> m2, mtime |-> MarkerTime(m2), wrote |-> wrote]

update_hash_marker(m, hash, t) ==
    IF needs_write(m, hash)
    THEN MarkerResult(m, Marked(hash, t), TRUE)
    ELSE MarkerResult(m, m, FALSE)

\* mutant: a source of white space only is loaded like any other
load_page_NoBlankCheck(slug, f) ==
    IF is_ignored_slug(slug) THEN [ok |-> FALSE, page |-> NewPage(slug, <<>>)]
    ELSE IF f.exists THEN [ok |-> TRUE, page |-> NewPage(slug, f.content)]
    ELSE [ok |-> FALSE, page |-> NewPage(slug, <<>>)]

\* TrellisEngine::load_page on the source file as it is
load_page(slug, f) ==
    IF is_ignored_slug(slug) THEN [ok |-> FALSE, page |-> NewPage(slug, <<>>)]
    ELSE IF f.exists
         THEN IF IsBlank(f.content) THEN [ok |-> FALSE, page |-> NewPage(slug, <<>>)]
              ELSE [ok |-> TRUE, page |-> NewPage(slug, f.content)]
    ELSE [ok |-> FALSE, page |-> NewPage(slug, <<>>)]

\* mutant: on a hit the page is built from the cache file alone
HitPage_CacheOnly(page, html) == [NewPage(page.slug, <<>>) EXCEPT !.html = Some(html)]

\* render_page, use_cache: page.html = Some(fs::read_to_string(&cache_path)?)
HitPage(page, html) == [page EXCEPT !.html = Some(html)]

\* the failing call a run of the chain on this page meets, if any: the
\* frontmatter parser ("yaml"), the markdown renderer, or one of the crypto
\* calls of a protected page whose ciphertext is not in ENCRYPT_CACHE
FailureMet(page, ec, inp) ==
    LET fm == FrontMatterStage(page, ec)
        protected == "password" \in DOMAIN fm.page.frontmatter
        key == CacheKey(fm.page.frontmatter["password"].v[1], MdHtml(fm.page.content))
    IN  IF ~fm.ok THEN "yaml"
        ELSE IF ~DraftFilter(fm.page) THEN "none"
        ELSE IF inp.fail = "markdown" THEN "markdown"
        ELSE IF inp.fail \in CryptoFailPoints /\ protected /\ key \notin DOMAIN ec THEN inp.fail
        ELSE "none"

\* mutant: every returned page is reported as freshly computed
Finish_AlwaysFresh(page, use_cache) == [IntoRendered(page) EXCEPT !.cached = Some(FALSE)]

\* rendered.cached = Some(use_cache)
Finish(page, use_cache) == [IntoRendered(page) EXCEPT !.cached = Some(use_cache)]

Step(p, r) == rp' = [rp EXCEPT ![p] = r]

\* render_page up to the freshness test: the ignore check, the paths, the
\* four dependency times (the theme marker is refreshed on the way)
RenderEnter(p, slug) ==
    /\ rp[p].pc = "idle"
    /\ MayStart(p)
    /\ LET start == [RpIdle EXCEPT !.op = "render", !.slug = slug,
                                   !.seen = SourceState(source[slug])]
           um == update_hash_marker(theme_marker, theme, now)
       IN  IF is_ignored_slug(slug)
           THEN /\ Step(p, [start EXCEPT !.pc = "done", !.res = Res("notfound", NoRendered)])
                /\ UNCHANGED theme_marker
           ELSE /\ Step(p, [start EXCEPT !.pc = "exists",
                               !.deps = <<depfile["styles"], depfile["binary"],
                                          depfile["config"], um.mtime>>])
                /\ theme_marker' = um.marker
    /\ UNCHANGED <<now, source, cachef, depfile, theme, ENCRYPT_CACHE, budget,
                   frVars, trVars, memVars, ecVars, pbVars, cwVars, hmVars, thVars, igVars, cpVars>>

\* source_path.exists() && cache_path.exists()
RenderExists(p) ==
    /\ rp[p].pc = "exists"
    /\ IF source[rp[p].slug].exists /\ cachef[rp[p].slug].exists
       THEN Step(p, [rp[p] EXCEPT !.pc = "fresh"])
       ELSE Step(p, [rp[p] EXCEPT !.pc = "load", !.use_cache = FALSE])
    /\ UNCHANGED <<now, source, cachef, theme_marker, depfile, theme, ENCRYPT_CACHE, budget,
                   frVars, trVars, memVars, ecVars, pbVars, cwVars, hmVars, thVars, igVars, cpVars>>

\* && cache::cache_is_fresh(&source_path, &cache_path, &[..])?
RenderFresh(p) ==
    /\ rp[p].pc = "fresh"
    /\ LET src == source[rp[p].slug]
           cf == cachef[rp[p].slug]
           r == cache_is_fresh(Mtime(src), Mtime(cf), rp[p].deps)
       IN  IF r.ok
           THEN Step(p, [rp[p] EXCEPT !.pc = "load", !.use_cache = r.val,
                            !.obs = Some([src |-> src.mtime, cache |-> cf.mtime])])
           ELSE Step(p, [rp[p] EXCEPT !.pc = "done", !.res = Res("io_notfound", NoRendered)])
    /\ UNCHANGED <<now, source, cachef, theme_marker, depfile, theme, ENCRYPT_CACHE, budget,
                   frVars, trVars, memVars, ecVars, pbVars, cwVars, hmVars, thVars, igVars, cpVars>>

\* let page = self.load_page(slug, &source_path)?;
\* let Some(mut page) = self.registry.transform(page)? else { bail!(..) };
RenderLoad(p, inp) ==
    /\ rp[p].pc = "load"
    /\ LET l == load_page(rp[p].slug, source[rp[p].slug])
           t == transform(l.page, ENCRYPT_CACHE, inp)
           r == [rp[p] EXCEPT !.loaded = Some(l.page.content),
                              !.why = FailureMet(l.page, ENCRYPT_CACHE, inp)]
       IN  IF ~l.ok
           THEN /\ Step(p, [rp[p] EXCEPT !.pc = "done", !.res = Res("notfound", NoRendered)])
                /\ UNCHANGED ENCRYPT_CACHE
           ELSE /\ ENCRYPT_CACHE' = t.ecache
                /\ CASE t.status = "err" ->
                          Step(p, [r EXCEPT !.pc = "done", !.res = Res("err", NoRendered)])
                     [] t.status = "filtered" ->
                          Step(p, [r EXCEPT !.pc = "done", !.res = Res("filtered", NoRendered)])
                     [] t.status = "some" ->
                          Step(p, [r EXCEPT !.pc = "io", !.page = t.page])
    /\ UNCHANGED <<now, source, cachef, theme_marker, depfile, theme, budget,
                   frVars, trVars, memVars, ecVars, pbVars, cwVars, hmVars, thVars, igVars, cpVars>>

\* if use_cache { page.html = Some(fs::read_to_string(&cache_path)?); }
RenderHit(p) ==
    /\ rp[p].pc = "io"
    /\ rp[p].use_cache
    /\ LET cf == cachef[rp[p].slug]
       IN  IF cf.exists
           THEN Step(p, [rp[p] EXCEPT !.pc = "done", !.read = Some(cf.content),
                            !.res = Res("ok", Finish(HitPage(rp[p].page, cf.content), TRUE))])
           ELSE Step(p, [rp[p] EXCEPT !.pc = "done", !.res = Res("io_notfound", NoRendered)])
    /\ UNCHANGED <<now, source, cachef, theme_marker, depfile, theme, ENCRYPT_CACHE, budget,
                   frVars, trVars, memVars, ecVars, pbVars, cwVars, hmVars, thVars, igVars, cpVars>>

\* if !use_cache { cache::write_cache(&cache_path, &rendered.html)?; }
\* wfail: the write fails
RenderMiss(p, wfail) ==
    /\ rp[p].pc = "io"
    /\ ~rp[p].use_cache
    /\ LET rendered == Finish(rp[p].page, FALSE)
       IN  IF wfail
           THEN /\ Step(p, [rp[p] EXCEPT !.pc = "done", !.why = "write_cache",
                                         !.res = Res("err", NoRendered)])
                /\ UNCHANGED cachef
           ELSE /\ cachef' = [cachef EXCEPT ![rp[p].slug] = File(rendered.html, now)]
                /\ Step(p, [rp[p] EXCEPT !.pc = "done", !.wrote = Some(rendered.html),
                                         !.res = Res("ok", rendered)])
    /\ UNCHANGED <<now, source, theme_marker, depfile, theme, ENCRYPT_CACHE, budget,
                   frVars, trVars, memVars, ecVars, pbVars, cwVars, hmVars, thVars, igVars, cpVars>>

\* TrellisEngine::page_exists
PageExists(p, slug) ==
    /\ rp[p].pc = "idle"
    /\ MayStart(p)
    /\ LET found == ~is_ignored_slug(slug) /\ source[slug].exists
       IN  Step(p, [RpIdle EXCEPT !.op = "exists", !.pc = "done", !.slug = slug,
                                  !.seen = SourceState(source[slug]),
                                  !.res = Res(IF found THEN "true" ELSE "false", NoRendered)])
    /\ UNCHANGED <<now, source, cachef, theme_marker, depfile, theme, ENCRYPT_CACHE, budget,
                   frVars, trVars, memVars, ecVars, pbVars, cwVars, hmVars, thVars, igVars, cpVars>>

\* the call has returned; the handler is free again
Return(p) ==
    /\ rp[p].pc = "done"
    /\ Step(p, RpIdle)
    /\ UNCHANGED <<now, source, cachef, theme_marker, depfile, theme, ENCRYPT_CACHE, budget,
                   frVars, trVars, memVars, ecVars, pbVars, cwVars, hmVars, thVars, igVars, cpVars>>

Next ==
    \/ Tick
    \/ \E s \in Editable, d \in EngineDocs : EditSource(s, d)
    \/ \E s \in Editable : DeleteSource(s)
    \/ \E d \in DepFiles : TouchDep(d)
    \/ \E p \in Procs :
          \/ \E s \in Slugs : RenderEnter(p, s) \/ PageExists(p, s)
          \/ RenderExists(p)
          \/ RenderFresh(p)
          \/ \E inp \in EngineInputs : RenderLoad(p, inp)
          \/ RenderHit(p)
          \/ \E wfail \in BOOLEAN : RenderMiss(p, wfail)
          \/ Return(p)

---------------------------------------------------------------------------
(* Properties of render_page and page_exists, checked under Spec.          *)

\* the pages the registry can return for a source text: one for each
\* outcome of the random draws, no call failing
NoFail == { inp \in Inputs : inp.fail = "none" }
ChainPages(slug, content) ==
    { transform(NewPage(slug, content), EmptyCache, inp).page :
        inp \in { i \in NoFail : transform(NewPage(slug, content), EmptyCache, i).status = "some" } }
ChainHtmls(slug, content) == { IntoRendered(pg).html : pg \in ChainPages(slug, content) }

Returned(r) == r.op = "render" /\ r.pc = "done"
ReturnedOk(r) == Returned(r) /\ r.res.kind = "ok"

\* the call has read a time greater than the time of the cache file
DepNewer(r) == IsSome(r.obs) /\ \E i \in DOMAIN r.deps : r.deps[i] > Get(r.obs).cache
SourceNewer(r) == IsSome(r.obs) /\ Get(r.obs).src > Get(r.obs).cache

C3_CachedHtmlOfCurrentSource ==
    \A p \in Procs :
       LET r == rp[p]
       IN  (ReturnedOk(r) /\ r.res.page.cached = Some(TRUE)) =>
              r.res.page.html \in ChainHtmls(r.slug, Get(r.loaded))

\* C8: a render_page call that returns cached = true has loaded the source
\* and has run the chain on it: the slug, the frontmatter (word count and
\* encrypted flag included) and the metadata (title, description, tags) of
\* the result are those the chain derives from the source content loaded in
\* this call, and the html is the content read from the cache file.
C8_HitKeepsSourceMetadata ==
    \A p \in Procs :
       LET r == rp[p]
       IN  (ReturnedOk(r) /\ r.res.page.cached = Some(TRUE)) =>
              /\ IsSome(r.loaded)
              /\ IsSome(r.read)
              /\ r.res.page.html = Get(r.read)
              /\ \E pg \in ChainPages(r.slug, Get(r.loaded)) :
                    /\ r.res.page.slug = pg.slug
                    /\ r.res.page.frontmatter = pg.frontmatter
                    /\ r.res.page.meta = pg.meta

\* a hit on a page whose source has a title and tags
C8_Witness ==
    \E p \in Procs :
       /\ ReturnedOk(rp[p])
       /\ rp[p].res.page.cached = Some(TRUE)
       /\ rp[p].res.page.meta.title = Some("Hello")
       /\ rp[p].res.page.meta.tags = Some(<<"a", "b">>)
       /\ IsSome(rp[p].read)

\* some segment of the slug's relative source path is an ignore pattern
HasIgnoredSegment(slug) ==
    \E i \in DOMAIN source_path_for(slug) : source_path_for(slug)[i] \in ignore_patterns

\* C9: for a slug whose relative source path has a segment equal to a
\* configured ignore pattern, page_exists returns false and render_page
\* returns NotFound whatever files exist, and the call neither reads nor
\* writes the cache file.
C9_IgnoredSlugNotFound ==
    \A p \in Procs :
       LET r == rp[p]
       IN  (r.op # "none" /\ HasIgnoredSegment(r.slug)) =>
              /\ r.pc = "done"
              /\ r.read = None
              /\ r.wrote = None
              /\ r.res.page = NoRendered
              /\ r.op = "render" => r.res.kind = "notfound"
              /\ r.op = "exists" => r.res.kind = "false"

\* an ignored slug was requested while its source and a cache file no older
\* than the source exist
C9_Witness ==
    \E p \in Procs :
       /\ Returned(rp[p])
       /\ HasIgnoredSegment(rp[p].slug)
       /\ source[rp[p].slug].exists
       /\ cachef[rp[p].slug].exists
       /\ cachef[rp[p].slug].mtime >= source[rp[p].slug].mtime
       /\ rp[p].res.kind = "notfound"

\* C10: a render_page call during which the source was never anything but
\* missing or white space returns an io error of kind NotFound (from
\* load_page, or from the metadata of a source removed after the existence
\* test), no page, and has not read the cache file; page_exists returns
\* false for a missing source, whether or not a cache file exists.
C10_MissingOrBlankSourceNotFound ==
    \A p \in Procs :
       LET r == rp[p]
       IN  /\ (Returned(r) /\ r.seen # "good") =>
                 /\ r.res.kind \in {"notfound", "io_notfound"}
                 /\ r.res.page = NoRendered
                 /\ r.read = None
                 /\ r.wrote = None
           /\ (r.op = "exists" /\ r.seen = "missing") => r.res.kind = "false"

\* a slug that is not ignored was requested while its source held white
\* space only and a cache file existed
C10_Witness ==
    \E p \in Procs :
       /\ Returned(rp[p])
       /\ ~HasIgnoredSegment(rp[p].slug)
       /\ rp[p].seen = "blank"
       /\ cachef[rp[p].slug].exists
       /\ rp[p].res.kind = "notfound"

\* the frontmatter stage on the source a call loaded
LoadedFm(r) == FrontMatterStage(NewPage(r.slug, Get(r.loaded)), EmptyCache)
IsDraft(page) ==
    "draft" \in DOMAIN page.frontmatter /\ page.frontmatter["draft"] = YBool(TRUE)

\* C11: a render_page call whose source has draft: true in its frontmatter
\* returns the filtered condition and no page, has not read the cache file
\* (also when the freshness test found one to reuse) and has written
\* nothing; a source with draft: false or without a draft key is not
\* filtered: the call returns a page unless a stage or the cache write fails.
C11_DraftIsFiltered ==
    \A p \in Procs :
       LET r == rp[p]
       IN  (Returned(r) /\ IsSome(r.loaded) /\ LoadedFm(r).ok) =>
              /\ IsDraft(LoadedFm(r).page) =>
                    /\ r.res = Res("filtered", NoRendered)
                    /\ r.read = None
                    /\ r.wrote = None
              /\ ~IsDraft(LoadedFm(r).page) =>
                    /\ r.res.kind \in {"ok", "err"}
                    /\ r.why = "none" => r.res.kind = "ok"
                    /\ r.res.kind = "ok" => (IsSome(r.read) \/ IsSome(r.wrote))

\* a draft was requested while the freshness test had found a cache file to
\* reuse
C11_Witness ==
    \E p \in Procs :
       /\ Returned(rp[p])
       /\ rp[p].use_cache
       /\ rp[p].res.kind = "filtered"
       /\ cachef[rp[p].slug].exists

\* C14: when the salt draw, the nonce draw, the cipher construction or the
\* encryption fails for a protected page, render_page returns the error and
\* no page, and the call writes no cache file and reads none.
C14_CryptoFailureFailsRender ==
    \A p \in Procs :
       LET r == rp[p]
       IN  (r.op = "render" /\ r.why \in CryptoFailPoints) =>
              /\ r.pc = "done"
              /\ r.res = Res("err", NoRendered)
              /\ r.wrote = None
              /\ r.read = None

\* the encryption of a protected page failed while a cache file judged
\* fresh was in place
C14_Witness ==
    \E p \in Procs :
       /\ Returned(rp[p])
       /\ rp[p].why \in CryptoFailPoints
       /\ "password" \in DOMAIN LoadedFm(rp[p]).page.frontmatter
       /\ rp[p].use_cache
       /\ cachef[rp[p].slug].exists
       /\ rp[p].res.kind = "err"

\* C17 (as claimed): a render_page call whose write_cache fails still
\* returns Ok with the page it computed and cached = false.
C17_WriteFailureSwallowed ==
    \A p \in Procs :
       LET r == rp[p]
       IN  (Returned(r) /\ r.why = "write_cache") =>
              /\ r.res.kind = "ok"
              /\ r.res.page.cached = Some(FALSE)
              /\ r.res.page.html \in ChainHtmls(r.slug, Get(r.loaded))

\* a source whose frontmatter block is not well-formed YAML
MalformedDoc == <<"---", "title: [x", "---", "Hi">>

\* C29: when the frontmatter block of the source is not well-formed YAML,
\* the FrontMatter stage fails and the chain stops there: no filter is
\* asked, MarkdownRenderer and EncryptContent do not run (the chain's
\* error carries the page as loaded, ENCRYPT_CACHE is as before), and
\* render_page returns the error, having neither written nor read the
\* slug's cache file.
C29_MalformedYamlFailsRender ==
    /\ \A p \in Procs :
          LET r == rp[p]
          IN  (r.op = "render" /\ r.loaded = Some(MalformedDoc)) =>
                 /\ r.pc = "done"
                 /\ r.why = "yaml"
                 /\ r.res = Res("err", NoRendered)
                 /\ r.wrote = None
                 /\ r.read = None
    /\ \A inp \in EngineInputs :
          transform(NewPage(<<"posts", "hello">>, MalformedDoc), ENCRYPT_CACHE, inp)
             = [status |-> "err", page |-> NewPage(<<"posts", "hello">>, MalformedDoc),
                ecache |-> ENCRYPT_CACHE]

\* a call met malformed frontmatter while a cache file judged fresh was in place
C29_Witness ==
    \E p \in Procs :
       /\ Returned(rp[p])
       /\ rp[p].loaded = Some(MalformedDoc)
       /\ rp[p].why = "yaml"
       /\ rp[p].use_cache
       /\ cachef[rp[p].slug].exists
       /\ rp[p].res.kind = "err"

\* C25: every render_page call that returns a page returns it with cached
\* set; cached = true exactly when the html returned is the text the call
\* read from the slug's cache file and the call wrote no cache file;
\* cached = false exactly when the html returned is the one the chain
\* computed in this call and the call wrote it to the cache path; no call
\* both reads and writes the cache file.
C25_CachedTellsReadFromWritten ==
    \A p \in Procs :
       LET r == rp[p]
           hit == /\ IsSome(r.read)
                  /\ r.res.page.html = Get(r.read)
                  /\ r.wrote = None
           miss == /\ IsSome(r.wrote)
                   /\ r.res.page.html = Get(r.wrote)
                   /\ r.res.page.html = IntoRendered(r.page).html
                   /\ r.read = None
       IN  /\ ~(IsSome(r.read) /\ IsSome(r.wrote))
           /\ ReturnedOk(r) =>
                 /\ r.res.page.cached \in {Some(TRUE), Some(FALSE)}
                 /\ r.res.page.cached = Some(TRUE) <=> hit
                 /\ r.res.page.cached = Some(FALSE) <=> miss

\* a call has returned a page read from a cache file whose text is not the
\* one the chain computed in that call
C25_Witness ==
    \E p \in Procs :
       /\ ReturnedOk(rp[p])
       /\ rp[p].res.page.cached = Some(TRUE)
       /\ IsSome(rp[p].read)
       /\ rp[p].res.page.html # IntoRendered(rp[p].page).html

\* C34: the freshness test yields a boolean and no failure: a call that has
\* seen both files exist goes on to load the page, and when the source or
\* the cache file is gone by the time its mtime is read it goes on with
\* use_cache false
C34_FreshnessTestNeverFails ==
    [][\A p \in Procs :
          (rp[p].pc = "fresh" /\ rp'[p] # rp[p]) =>
              /\ rp'[p].pc = "load"
              /\ (~source[rp[p].slug].exists \/ ~cachef[rp[p].slug].exists) => ~rp'[p].use_cache]_vars

\* the source a call loaded sets a password
LoadedProtected(r) ==
    /\ IsSome(r.loaded)
    /\ LoadedFm(r).ok
    /\ "password" \in DOMAIN LoadedFm(r).page.frontmatter
    /\ LoadedFm(r).page.frontmatter["password"].v[1] # ""

\* C36: a render_page call that returns a page for a source whose
\* frontmatter sets a password returns the encrypted shell and never the
\* plaintext html, on misses and on hits, whatever edits and concurrent
\* calls came before
C36_ProtectedNeverPlaintext ==
    \A p \in Procs :
       (ReturnedOk(rp[p]) /\ LoadedProtected(rp[p])) =>
           rp[p].res.page.html.kind = "encrypted-note"

\* on a miss the html returned and written is the shell
ProtectedMissIsShell ==
    \A p \in Procs :
       (ReturnedOk(rp[p]) /\ LoadedProtected(rp[p]) /\ rp[p].res.page.cached = Some(FALSE)) =>
           /\ rp[p].res.page.html.kind = "encrypted-note"
           /\ rp[p].wrote = Some(rp[p].res.page.html)

\* the call met one of the conditions render_page answers with an error:
\* an ignored slug, a missing or blank source, malformed frontmatter, a
\* draft, a failing stage
MetFailure(r) ==
    \/ r.res.kind \in {"notfound", "io_notfound", "filtered"}
    \/ r.res.kind = "err" /\ r.why # "write_cache"
    \/ is_ignored_slug(r.slug)
    \/ IsSome(r.loaded) /\ IsBlank(Get(r.loaded))
    \/ IsSome(r.loaded) /\ ~LoadedFm(r).ok
    \/ IsSome(r.loaded) /\ LoadedFm(r).ok /\ IsDraft(LoadedFm(r).page)

\* C38: a render_page call that ends in an error (slug ignored, source
\* missing or blank, frontmatter malformed, page filtered, a stage failing)
\* returns no page and has written nothing to the slug's cache file; a
\* cache file changes only by the write of a call that returns
\* cached = false, and no step removes one
C38_FailedRenderLeavesCache ==
    [][/\ \A p \in Procs :
             (Returned(rp'[p]) /\ MetFailure(rp'[p])) =>
                 /\ rp'[p].res.kind # "ok"
                 /\ rp'[p].wrote = None
                 /\ rp[p] # rp'[p] => cachef' = cachef
       /\ \A s \in Slugs :
             /\ cachef[s].exists => cachef'[s].exists
             /\ cachef'[s] # cachef[s] =>
                    \E p \in Procs :
                       /\ rp[p].pc = "io" /\ rp[p].slug = s
                       /\ ReturnedOk(rp'[p])
                       /\ rp'[p].res.page.cached = Some(FALSE)
                       /\ cachef'[s].content = rp'[p].res.page.html]_vars

\* a call for a page whose cache file is in place failed in the encryption
\* stage, and the cache file is as the call found it
C38_Witness ==
    \E p \in Procs :
       /\ Returned(rp[p])
       /\ rp[p].res.kind = "err"
       /\ rp[p].why = "encrypt"
       /\ rp[p].wrote = None
       /\ IsSome(rp[p].obs)
       /\ cachef[rp[p].slug].exists
       /\ cachef[rp[p].slug].mtime = Get(rp[p].obs).cache

---------------------------------------------------------------------------
(* SpecEncrypt: plugins/encryption.rs EncryptContent::transform on pages   *)
(* that carry a password and html, called by concurrent renders.  The      *)
(* two sections under the ENCRYPT_CACHE mutex (the lookup, the insert) are *)
(* one step each; the key derivation and encryption between them is one    *)
(* step without the lock.                                                  *)

\* renders running at once
EcProcs == {1, 2}

\* the (password, plaintext html) pairs of the pages: the last two differ
\* in where the password ends
EcPairs ==
    { <<"pw", MdHtml(<<"top secret">>)>>,
      <<"pw<p>top</p>", MdHtml(<<"Hi">>)>>, <<"pw", MdHtml(<<"top</p><p>Hi">>)>> }

\* what a miss meets: a failing crypto call or none, and the random source
\* read for the salt and the nonce
EcInputs == { inp \in Inputs : inp.salt = inp.nonce /\ inp.fail \in {"none"} \cup CryptoFailPoints }

NoDraw == [salt |-> 0, nonce |-> 0, sealed |-> <<"", MdHtml(<<>>)>>]

\* a caller: its position, the pair of its page, the outputs of the calls
\* for that pair that had returned when it entered, what the lookup found,
\* what it computed itself, and what it returns ("ok" with the salt and
\* nonce of the ciphertext in the page, or "err")
EcRest ==
    [pc |-> "idle", pair |-> <<"", MdHtml(<<>>)>>, prior |-> {}, cached |-> None,
     drawn |-> None, out |-> "none", val |-> NoDraw]

EcIdle == ec_p = [p \in EcProcs |-> EcRest] /\ ec_log = {}

EcKey(c) == CacheKey(c.pair[1], c.pair[2])

EcGoto(p, c) == ec_p' = [ec_p EXCEPT ![p] = c]

\* the outputs returned so far for a key
EcReturned(key) == { e.val : e \in { x \in ec_log : x.ev = "returned" /\ x.key = key } }
\* the outputs inserted so far for a key
EcInserted(key) == { e.val : e \in { x \in ec_log : x.ev = "inserted" /\ x.key = key } }

\* transform is entered with a page whose password and html are set
EcEnter(p, pair) ==
    /\ ec_p[p].pc = "idle"
    /\ EcGoto(p, [EcRest EXCEPT !.pc = "lookup", !.pair = pair,
                                !.prior = EcReturned(CacheKey(pair[1], pair[2]))])
    /\ UNCHANGED <<ec_log, frVars, trVars, memVars, engVars, pbVars, cwVars, hmVars, thVars, igVars, cpVars>>

\* mutant: the lookup finds nothing
EcCached_Never(ec, key) == None

\* ENCRYPT_CACHE.lock().ok().and_then(|map| map.get(&cache_key).cloned())
EcCached(ec, key) == IF key \in DOMAIN ec THEN Some(ec[key]) ELSE None

EcLookup(p) ==
    /\ ec_p[p].pc = "lookup"
    /\ LET hit == EcCached(ENCRYPT_CACHE, EcKey(ec_p[p]))
       IN  EcGoto(p, [ec_p[p] EXCEPT !.cached = hit,
                                     !.pc = IF IsSome(hit) THEN "finish" ELSE "compute"])
    /\ UNCHANGED <<ec_log, frVars, trVars, memVars, engVars, pbVars, cwVars, hmVars, thVars, igVars, cpVars>>

\* the miss branch up to the encoded ciphertext: salt, key, nonce, cipher,
\* encrypt
EcCompute(p, inp) ==
    /\ ec_p[p].pc = "compute"
    /\ IF inp.fail \in CryptoFailPoints
       THEN EcGoto(p, [ec_p[p] EXCEPT !.pc = "done", !.out = "err"])
       ELSE EcGoto(p, [ec_p[p] EXCEPT !.pc = "insert",
                                      !.drawn = Some([salt |-> inp.salt, nonce |-> inp.nonce,
                                                      sealed |-> ec_p[p].pair])])
    /\ UNCHANGED <<ec_log, frVars, trVars, memVars, engVars, pbVars, cwVars, hmVars, thVars, igVars, cpVars>>

\* if let Ok(mut map) = ENCRYPT_CACHE.lock() { map.insert(cache_key, ..) }
EcInsert(p) ==
    /\ ec_p[p].pc = "insert"
    /\ LET key == EcKey(ec_p[p])
       IN  /\ ENCRYPT_CACHE' = [k \in DOMAIN ENCRYPT_CACHE \cup {key} |->
                                   IF k = key THEN Get(ec_p[p].drawn) ELSE ENCRYPT_CACHE[k]]
           /\ ec_log' = ec_log \cup {[ev |-> "inserted", key |-> key, val |-> Get(ec_p[p].drawn)]}
    /\ EcGoto(p, [ec_p[p] EXCEPT !.pc = "finish"])
    /\ UNCHANGED <<now, source, cachef, theme_marker, depfile, theme, rp, budget,
                   frVars, trVars, memVars, pbVars, cwVars, hmVars, thVars, igVars, cpVars>>

\* the page is returned with the ciphertext of the hit or of the miss branch
EcFinish(p) ==
    /\ ec_p[p].pc = "finish"
    /\ LET used == IF IsSome(ec_p[p].cached) THEN Get(ec_p[p].cached) ELSE Get(ec_p[p].drawn)
       IN  /\ EcGoto(p, [ec_p[p] EXCEPT !.pc = "done", !.out = "ok", !.val = used])
           /\ ec_log' = ec_log \cup {[ev |-> "returned", key |-> EcKey(ec_p[p]), val |-> used]}
    /\ UNCHANGED <<frVars, trVars, memVars, engVars, pbVars, cwVars, hmVars, thVars, igVars, cpVars>>

\* the caller goes on to its next page
EcReturn(p) ==
    /\ ec_p[p].pc = "done"
    /\ EcGoto(p, EcRest)
    /\ UNCHANGED <<ec_log, frVars, trVars, memVars, engVars, pbVars, cwVars, hmVars, thVars, igVars, cpVars>>

EcNext ==
    \E p \in EcProcs :
       \/ \E pair \in EcPairs : EcEnter(p, pair)
       \/ EcLookup(p)
       \/ \E inp \in EcInputs : EcCompute(p, inp)
       \/ EcInsert(p)
       \/ EcFinish(p)
       \/ EcReturn(p)

\* run alone, a call does what EncryptContent::transform does as a function
EcAgrees ==
    \A p \in EcProcs :
       LET c == ec_p[p]
       IN  (c.pc = "done" /\ c.out = "ok" /\ IsSome(c.cached)) =>
              \E ec \in {[k \in {EcKey(c)} |-> Get(c.cached)]} :
                 LET page == [NewPage(TrSlug, <<>>) EXCEPT
                                 !.html = Some(c.pair[2]),
                                 !.frontmatter = FmPut(NoFrontmatter, "password", YStr(c.pair[1]))]
                     r == EncryptStage(page, ec, [fail |-> "none", salt |-> 1, nonce |-> 1])
                 IN  /\ r.ok
                     /\ Get(r.page.html).cipher = Some([password |-> c.val.sealed[1],
                                                         plaintext |-> c.val.sealed[2],
                                                         salt |-> c.val.salt, nonce |-> c.val.nonce])

C16_ConcurrentSameOutput ==
    \A e \in { x \in ec_log : x.ev = "returned" } :
       /\ EcReturned(e.key) = {e.val}
       /\ e.key \in DOMAIN ENCRYPT_CACHE
       /\ ENCRYPT_CACHE[e.key] = e.val

\* C37: the cache key separates its inputs: calls with different
\* (password, plaintext) pairs have different keys, and the entry a call
\* finds in ENCRYPT_CACHE holds a ciphertext made for its own pair
C37_KeySeparatesInputs ==
    \A p, q \in EcProcs :
       /\ (ec_p[p].pc # "idle" /\ ec_p[q].pc # "idle" /\ ec_p[p].pair # ec_p[q].pair) =>
              EcKey(ec_p[p]) # EcKey(ec_p[q])
       /\ IsSome(ec_p[p].cached) => Get(ec_p[p].cached).sealed = ec_p[p].pair

\* pairs whose keys differ never share an entry
DistinctKeysDistinctEntries ==
    \A p \in EcProcs :
       IsSome(ec_p[p].cached) =>
          CacheKey(Get(ec_p[p].cached).sealed[1], Get(ec_p[p].cached).sealed[2]) = EcKey(ec_p[p])

---------------------------------------------------------------------------
(* SpecPrebuild: renderer.rs TrellisEngine::prebuild_all over a content    *)
(* tree that does not change during the sweep.  One step is one entry the  *)
(* walker yields, with the whole render_page call made for it.             *)

\* files under the content root, as paths relative to it
PbPaths ==
    { <<"a.md">>, <<"b.md">>, <<"private", "c.md">>, <<"notes.txt">>,
      <<"page filtered out by plugins.md">> }

\* entry.path().extension() == Some("md")
IsMd(seg) ==
    seg \in {"a.md", "b.md", "c.md", "page filtered out by plugins.md",
             "hello.md", "secret.md", "private.md"}

\* Path::with_extension("")
WithoutExtension(seg) ==
    CASE seg = "a.md" -> "a"
      [] seg = "b.md" -> "b"
      [] seg = "c.md" -> "c"
      [] seg = "notes.txt" -> "notes"
      [] seg = "hello.md" -> "hello"
      [] seg = "secret.md" -> "secret"
      [] seg = "private.md" -> "private"
      [] seg = "page filtered out by plugins.md" -> "page filtered out by plugins"
      [] OTHER -> seg

\* types.rs slug_from_path, on the path relative to the content root
slug_from_path(rel) == [rel EXCEPT ![Len(rel)] = WithoutExtension(rel[Len(rel)])]

PbSlugs == { slug_from_path(f) : f \in PbPaths }

\* the time the sources were written, and the time of the sweep
PbTime == UNIX_EPOCH + 1

\* what the files may hold
PbDocs ==
    { <<"Hi">>,
      <<" ">>,
      <<"---", "draft: true", "---", "Hi">>,
      <<"---", "title: [x", "---", "Hi">>,
      <<"---", "password: pw", "---", "top secret">> }

\* a file holding doc, or no file when doc is None
Holding(doc) == IF IsSome(doc) THEN File(Get(doc), PbTime) ELSE NoFile

\* the content trees swept
PbTree(a, b, c, n, q) ==
    [f \in PbPaths |->
        CASE f = <<"a.md">> -> Holding(a)
          [] f = <<"b.md">> -> Holding(b)
          [] f = <<"private", "c.md">> -> Holding(c)
          [] f = <<"notes.txt">> -> Holding(n)
          [] OTHER -> Holding(q)]
PbTrees ==
    { PbTree(a, b, c, n, q) :
         a \in {None} \cup {Some(d) : d \in PbDocs},
         b \in {None} \cup {Some(d) : d \in PbDocs \ {<<"---", "password: pw", "---", "top secret">>}},
         c \in {None, Some(<<"Hi">>)},
         n \in {None, Some(<<"Hi">>)},
         q \in {None, Some(<<"Hi">>), Some(<<" ">>)} }

\* the cache directory an earlier sweep may have left: a.md rendered or not
PbCaches ==
    { [g \in PbSlugs |-> IF g = <<"a">> THEN cf ELSE NoCacheFile] :
         cf \in {NoCacheFile, File(MdHtml(<<"Hi">>), PbTime)} }

\* an error as err.to_string() shows it: the text of the outermost message
\* and the slug the message quotes, if it quotes one
PbErr(kind, text, slug) == [kind |-> kind, text |-> text, slug |-> slug]
PbOk == PbErr("ok", "", None)

\* the strings of this model that contain "page filtered out by plugins"
HasPhrase(str) ==
    str \in {"page filtered out by plugins: ", "page filtered out by plugins",
             "page filtered out by plugins.md"}

\* mutant: no error is taken for the filtered condition
IsFilteredMessage_Never(e) == FALSE

\* err.to_string().contains("page filtered out by plugins")
IsFilteredMessage(e) ==
    \/ HasPhrase(e.text)
    \/ IsSome(e.slug) /\ \E i \in DOMAIN Get(e.slug) : HasPhrase(Get(e.slug)[i])

\* the error a failing call of the chain returns
ChainMessage(why) ==
    CASE why = "yaml"     -> PbErr("yaml", "parsing frontmatter", None)
      [] why = "markdown" -> PbErr("markdown", "markdown: ", None)
      [] why = "salt"     -> PbErr("crypto", "random salt failed: ", None)
      [] why = "nonce"    -> PbErr("crypto", "random nonce failed: ", None)
      [] why = "cipher"   -> PbErr("crypto", "failed to create cipher: ", None)
      [] OTHER            -> PbErr("crypto", "encrypting protected note: ", None)

\* the dependency times of a quiet deployment
QuietDeps == <<UNIX_EPOCH, UNIX_EPOCH, UNIX_EPOCH, UNIX_EPOCH>>

\* the result of a render_page call, the cache file and ENCRYPT_CACHE after it
Out(e, c, m) == [err |-> e, cfile |-> c, ecache |-> m]

\* render_page from `if use_cache` on: t is what registry.transform returned
\* with Some(page)
RenderTail(cf, use_cache, t, wfail) ==
    IF use_cache THEN Out(PbOk, cf, t.ecache)
    ELSE IF wfail THEN Out(PbErr("io", "Permission denied (os error 13)", None), cf, t.ecache)
    ELSE Out(PbOk, File(Finish(t.page, use_cache).html, PbTime), t.ecache)

\* render_page from registry.transform on: l is what load_page returned, t
\* what the chain made of it
RenderChain(slug, cf, ec, inp, use_cache, l, t, wfail) ==
    IF t.status = "err" THEN Out(ChainMessage(FailureMet(l.page, ec, inp)), cf, t.ecache)
    ELSE IF t.status = "filtered"
    THEN Out(PbErr("filtered", "page filtered out by plugins: ", Some(slug)), cf, t.ecache)
    ELSE RenderTail(cf, use_cache, t, wfail)

\* render_page from load_page on
RenderLoaded(slug, src, cf, ec, inp, use_cache, l, wfail) ==
    IF ~l.ok
    THEN Out(PbErr("notfound",
                   IF src.exists THEN "empty markdown for slug " ELSE "missing markdown for slug ",
                   Some(slug)), cf, ec)
    ELSE RenderChain(slug, cf, ec, inp, use_cache, l, transform(l.page, ec, inp), wfail)

\* let use_cache = source_path.exists() && cache_path.exists() && cache_is_fresh(..)?
UseCache(src, cf, fresh) == src.exists /\ cf.exists /\ fresh.ok /\ fresh.val

\* TrellisEngine::render_page as one call on a quiet file system: src and cf
\* are the source and the cache file of the slug, ec is ENCRYPT_CACHE
render_page(slug, src, cf, ec, inp, wfail) ==
    IF is_ignored_slug(slug)
    THEN Out(PbErr("notfound", "slug {} is ignored by configuration", Some(slug)), cf, ec)
    ELSE RenderLoaded(slug, src, cf, ec, inp,
                      UseCache(src, cf, cache_is_fresh(Mtime(src), Mtime(cf), QuietDeps)),
                      load_page(slug, src), wfail)

PbIdle ==
    /\ pb_files = [f \in PbPaths |-> NoFile]
    /\ pb_cache = [g \in PbSlugs |-> NoCacheFile]
    /\ pb_todo = {}
    /\ pb_slugs = <<>>
    /\ pb_out = "idle"
    /\ pb_log = <<>>
    /\ pb_listed = None

\* prebuild_all is entered: no slug collected, every file still to be
\* yielded by the walker; a.md may have a cache file of an earlier run
PbStart ==
    /\ pb_files \in PbTrees
    /\ pb_cache \in PbCaches
    /\ pb_todo = { f \in PbPaths : pb_files[f].exists }
    /\ pb_slugs = <<>>
    /\ pb_out = "running"
    /\ pb_log = <<>>
    /\ pb_listed = None

\* WalkDir .. filter_entry(|e| !self.is_ignored_path(e.path())) .. is_file()
\* and the test of the extension
Swept(rel) == ~is_ignored_path(rel) /\ IsMd(rel[Len(rel)])

\* the walker yields a file that the filters drop
PbSkipEntry(rel) ==
    /\ pb_out = "running"
    /\ rel \in pb_todo
    /\ ~Swept(rel)
    /\ pb_todo' = pb_todo \ {rel}
    /\ UNCHANGED <<pb_files, pb_cache, pb_slugs, pb_out, pb_log, pb_listed,
                   frVars, trVars, memVars, engVars, ecVars, cwVars, hmVars, thVars, igVars, cpVars>>

\* match self.render_page(&slug) { Ok(_) => .., Err(err) => .. }
PbMatch(slug, r) ==
    /\ pb_cache' = [pb_cache EXCEPT ![slug] = r.cfile]
    /\ ENCRYPT_CACHE' = r.ecache
    /\ pb_log' = Append(pb_log, [slug |-> slug, err |-> r.err])
    /\ IF r.err.kind = "ok"
       THEN pb_slugs' = Append(pb_slugs, slug) /\ UNCHANGED pb_out
       ELSE IF IsFilteredMessage(r.err)
       THEN UNCHANGED <<pb_slugs, pb_out>>
       ELSE pb_out' = "err" /\ UNCHANGED pb_slugs

\* the walker yields a markdown file, which is rendered
PbRenderSlug(rel, slug, inp, wfail) ==
    PbMatch(slug, render_page(slug, pb_files[source_path_for(slug)], pb_cache[slug],
                              ENCRYPT_CACHE, inp, wfail))

PbRender(rel, inp, wfail) ==
    /\ pb_out = "running"
    /\ rel \in pb_todo
    /\ Swept(rel)
    /\ PbRenderSlug(rel, slug_from_path(rel), inp, wfail)
    /\ pb_todo' = pb_todo \ {rel}
    /\ UNCHANGED <<pb_files, pb_listed, now, source, cachef, theme_marker, depfile, theme, rp, budget,
                   frVars, trVars, memVars, ecVars, cwVars, hmVars, thVars, igVars, cpVars>>

\* the sweep is over
PbOver == pb_out \in {"ok", "err"}

\* Ok(slugs)
PbFinish ==
    /\ pb_out = "running"
    /\ pb_todo = {}
    /\ pb_out' = "ok"
    /\ UNCHANGED <<pb_files, pb_cache, pb_todo, pb_slugs, pb_log, pb_listed,
                   frVars, trVars, memVars, engVars, ecVars, cwVars, hmVars, thVars, igVars, cpVars>>

\* the slugs of this model as Vec<String>::sort orders their strings
SlugOrder ==
    << <<"a">>, <<"b">>, <<"notes">>, <<"page filtered out by plugins">>, <<"private", "c">> >>

\* slugs.sort(); slugs.dedup();
SortDedup(slugs) == SelectSeq(SlugOrder, LAMBDA g : g \in Range(slugs))

\* TrellisEngine::cached_slugs: the slug of every .html file under the
\* cache root, whatever its source holds now
cached_slugs(cache) == SelectSeq(SlugOrder, LAMBDA g : cache[g].exists)

\* engine.prebuild_all().unwrap_or_default()
PrebuiltOrDefault == IF pb_out = "ok" THEN pb_slugs ELSE <<>>

\* the web layer's list: the slugs of the sweep, then those of the cache
\* directory, sorted, without repetitions
PbList ==
    /\ PbOver
    /\ pb_listed = None
    /\ pb_listed' = Some(SortDedup(PrebuiltOrDefault \o cached_slugs(pb_cache)))
    /\ UNCHANGED <<pb_files, pb_cache, pb_todo, pb_slugs, pb_out, pb_log,
                   frVars, trVars, memVars, engVars, ecVars, cwVars, hmVars, thVars, igVars, cpVars>>

PbNext ==
    \/ \E rel \in PbPaths : PbSkipEntry(rel)
    \/ \E rel \in PbPaths, inp \in EngineInputs, wfail \in BOOLEAN : PbRender(rel, inp, wfail)
    \/ PbFinish
    \/ PbList

----
\* properties of SpecPrebuild

\* the source of a slug read on its own: its frontmatter stage
PbFm(rel) == FrontMatterStage(NewPage(slug_from_path(rel), pb_files[rel].content), EmptyCache)

\* the .md files outside ignored segments that are no drafts
\* (a source whose frontmatter does not parse has no draft flag)
Publishable ==
    { rel \in PbPaths :
         /\ pb_files[rel].exists
         /\ IsMd(rel[Len(rel)])
         /\ \A i \in DOMAIN rel : rel[i] \notin ignore_patterns
         /\ ~(PbFm(rel).ok /\ IsDraft(PbFm(rel).page)) }

\* no render of the sweep so far failed with anything but the filtered condition
OnlyFiltered == \A i \in DOMAIN pb_log : pb_log[i].err.kind \in {"ok", "filtered"}

\* C18: a sweep in which no page fails with another error than the filtered
\* condition does not stop at a draft: it ends with Ok, the slugs it returns
\* are exactly those of the .md files outside ignored path segments that are
\* not drafts, each once, and each returned slug has a cache file.
C18_PrebuildSkipsDrafts ==
    OnlyFiltered =>
        /\ pb_out # "err"
        /\ pb_out = "ok" =>
              /\ { pb_slugs[i] : i \in DOMAIN pb_slugs } = { slug_from_path(rel) : rel \in Publishable }
              /\ Len(pb_slugs) = Cardinality(Publishable)
              /\ \A i \in DOMAIN pb_slugs : pb_cache[pb_slugs[i]].exists

\* a finished sweep that met a draft first and rendered a page after it,
\* in a tree that also holds an ignored directory and a file that is no .md
C18_Witness ==
    /\ pb_out = "ok"
    /\ OnlyFiltered
    /\ Len(pb_log) = 2
    /\ pb_log[1].err.kind = "filtered"
    /\ pb_log[2].err.kind = "ok"
    /\ pb_slugs = <<pb_log[2].slug>>
    /\ pb_cache[pb_log[2].slug].exists
    /\ pb_files[<<"private", "c.md">>].exists
    /\ pb_files[<<"notes.txt">>].exists

\* C19: when a sweep that met a page with malformed frontmatter YAML is
\* over, every sibling page that renders on its own (a plain .md file
\* outside ignored segments) has been rendered into the cache by it.
C19_MalformedFailsOnlyItself ==
    (PbOver /\ \E i \in DOMAIN pb_log : pb_log[i].err.kind = "yaml") =>
        \A rel \in PbPaths :
            (Swept(rel) /\ pb_files[rel].content = <<"Hi">>) =>
                /\ pb_cache[slug_from_path(rel)].exists
                /\ \E i \in DOMAIN pb_log : pb_log[i].slug = slug_from_path(rel)

\* C20: a render of the sweep that fails with anything but the filtered
\* condition is the last render of the sweep, and the sweep returns the error.
C20_OtherErrorIsFatal ==
    \A i \in DOMAIN pb_log :
        pb_log[i].err.kind \notin {"ok", "filtered"} =>
            /\ pb_out = "err"
            /\ i = Len(pb_log)

\* what holds instead: an error other than the filtered condition ends the
\* sweep unless the slug its message quotes contains the phrase looked for
FatalUnlessPhraseInSlug ==
    \A i \in DOMAIN pb_log :
        (/\ pb_log[i].err.kind \notin {"ok", "filtered"}
         /\ \A k \in DOMAIN pb_log[i].slug : ~HasPhrase(pb_log[i].slug[k])) =>
            /\ pb_out = "err"
            /\ i = Len(pb_log)

\* the slugs listed whose source is marked draft: true now
ListedDrafts ==
    { rel \in PbPaths :
         /\ IsSome(pb_listed)
         /\ slug_from_path(rel) \in Range(Get(pb_listed))
         /\ pb_files[rel].exists
         /\ PbFm(rel).ok
         /\ IsDraft(PbFm(rel).page) }

\* C26 (as claimed): no page marked draft: true is in the merged list of
\* prebuild_all and cached_slugs, also when a cache file of the page is
\* left from the time before it was marked.
C26_DraftNeverListed == ListedDrafts = {}

\* what holds: a listed draft comes from its cache file, never from the sweep
DraftListedFromCacheOnly ==
    /\ \A rel \in PbPaths :
          (pb_files[rel].exists /\ PbFm(rel).ok /\ IsDraft(PbFm(rel).page)) =>
              slug_from_path(rel) \notin Range(pb_slugs)
    /\ \A rel \in ListedDrafts : pb_cache[slug_from_path(rel)].exists

---------------------------------------------------------------------------
(* SpecCacheWrite: two render_page calls for one slug whose source and     *)
(* dependencies are at rest.  cache::write_cache is fs::write, which       *)
(* creates or truncates the file and then writes the text through the      *)
(* handle it holds (File::create, write_all); each of these system calls   *)
(* is one step, and so are the exists test, the metadata reads of          *)
(* cache_is_fresh and the read of the cache file.                          *)

CwProcs == {1, 2}
CwSlug == <<"posts", "hello">>
CwSource == File(<<"Hi", "there">>, UNIX_EPOCH + 1)

\* what an earlier run left at the cache path: nothing, the rendering of an
\* older source, or the rendering of the source as it is
CwLeft ==
    { NoCacheFile,
      File(MdHtml(<<"Old">>), UNIX_EPOCH),
      File(MdHtml(<<"Hi", "there">>), UNIX_EPOCH + 1) }

\* the random source and the chain behave
CwInput == [fail |-> "none", salt |-> 1, nonce |-> 1]

\* a caller: its position, use_cache, the page of the chain, the handle of
\* fs::write (the text still to write and the offset reached), the result;
\* after: the html of the first call that had returned cached = false when
\* this call began, if there was one
CwRest ==
    [pc |-> "idle", use_cache |-> FALSE, page |-> NewPage(<<>>, <<>>),
     left |-> <<>>, at |-> 0, res |-> NoRes, after |-> None]

\* cw_first: the html of the first call that returned cached = false
CwIdle == cw_file = NoCacheFile /\ cw_first = None /\ cw_p = [p \in CwProcs |-> CwRest]

CwStart == cw_file \in CwLeft /\ cw_first = None /\ cw_p = [p \in CwProcs |-> CwRest]

CwGoto(p, c) == cw_p' = [cw_p EXCEPT ![p] = c]

\* write(2) of one line at offset k of a file holding body: bytes between
\* the end of the file and the offset read as zeros
Hole == "\\0"
WriteAt(body, k, line) ==
    [i \in 1..(IF Len(body) > k + 1 THEN Len(body) ELSE k + 1) |->
        IF i = k + 1 THEN line ELSE IF i <= Len(body) THEN body[i] ELSE Hole]

\* source_path.exists() && cache_path.exists()
CwExists(p) ==
    /\ cw_p[p].pc = "idle"
    /\ IF CwSource.exists /\ cw_file.exists
       THEN CwGoto(p, [CwRest EXCEPT !.pc = "fresh", !.after = cw_first])
       ELSE CwGoto(p, [CwRest EXCEPT !.pc = "load", !.after = cw_first])
    /\ UNCHANGED <<cw_file, cw_first, frVars, trVars, memVars, engVars, ecVars, pbVars, hmVars, thVars, igVars, cpVars>>

\* && cache::cache_is_fresh(..)?  with the result of the metadata reads
CwJudged(p, r) ==
    IF r.ok THEN CwGoto(p, [cw_p[p] EXCEPT !.pc = "load", !.use_cache = r.val])
    ELSE CwGoto(p, [cw_p[p] EXCEPT !.pc = "done", !.res = Res("io_notfound", NoRendered)])

CwFresh(p) ==
    /\ cw_p[p].pc = "fresh"
    /\ CwJudged(p, cache_is_fresh(Mtime(CwSource), Mtime(cw_file), QuietDeps))
    /\ UNCHANGED <<cw_file, cw_first, frVars, trVars, memVars, engVars, ecVars, pbVars, hmVars, thVars, igVars, cpVars>>

\* load_page and registry.transform
CwLoad(p) ==
    /\ cw_p[p].pc = "load"
    /\ CwGoto(p, [cw_p[p] EXCEPT !.pc = "io",
                     !.page = transform(load_page(CwSlug, CwSource).page, EmptyCache, CwInput).page])
    /\ UNCHANGED <<cw_file, cw_first, frVars, trVars, memVars, engVars, ecVars, pbVars, hmVars, thVars, igVars, cpVars>>

\* if use_cache { page.html = Some(fs::read_to_string(&cache_path)?); }
CwRead(p) ==
    /\ cw_p[p].pc = "io"
    /\ cw_p[p].use_cache
    /\ IF cw_file.exists
       THEN CwGoto(p, [cw_p[p] EXCEPT !.pc = "done",
                          !.res = Res("ok", Finish(HitPage(cw_p[p].page, cw_file.content), TRUE))])
       ELSE CwGoto(p, [cw_p[p] EXCEPT !.pc = "done", !.res = Res("io_notfound", NoRendered)])
    /\ UNCHANGED <<cw_file, cw_first, frVars, trVars, memVars, engVars, ecVars, pbVars, hmVars, thVars, igVars, cpVars>>

\* write_cache, fs::write: File::create opens the file with O_CREAT|O_TRUNC
CwCreate(p) ==
    /\ cw_p[p].pc = "io"
    /\ ~cw_p[p].use_cache
    /\ cw_file' = File(MdHtml(<<>>), PbTime)
    /\ CwGoto(p, [cw_p[p] EXCEPT !.pc = "write", !.at = 0,
                                 !.left = Finish(cw_p[p].page, FALSE).html.body])
    /\ UNCHANGED <<cw_first, frVars, trVars, memVars, engVars, ecVars, pbVars, hmVars, thVars, igVars, cpVars>>

\* write_all: the next stretch of the text goes out at the handle's offset
CwWrite(p) ==
    /\ cw_p[p].pc = "write"
    /\ cw_p[p].left # <<>>
    /\ cw_file' = File(MdHtml(WriteAt(cw_file.content.body, cw_p[p].at, Head(cw_p[p].left))), PbTime)
    /\ CwGoto(p, [cw_p[p] EXCEPT !.left = Tail(@), !.at = @ + 1])
    /\ UNCHANGED <<cw_first, frVars, trVars, memVars, engVars, ecVars, pbVars, hmVars, thVars, igVars, cpVars>>

\* the text is out: rendered.cached = Some(false); Ok(rendered)
CwWritten(p) ==
    /\ cw_p[p].pc = "write"
    /\ cw_p[p].left = <<>>
    /\ CwGoto(p, [cw_p[p] EXCEPT !.pc = "done", !.res = Res("ok", Finish(cw_p[p].page, FALSE))])
    /\ cw_first' = IF IsSome(cw_first) THEN cw_first ELSE Some(Finish(cw_p[p].page, FALSE).html)
    /\ UNCHANGED <<cw_file, frVars, trVars, memVars, engVars, ecVars, pbVars, hmVars, thVars, igVars, cpVars>>

CwReturn(p) ==
    /\ cw_p[p].pc = "done"
    /\ CwGoto(p, CwRest)
    /\ UNCHANGED <<cw_file, cw_first, frVars, trVars, memVars, engVars, ecVars, pbVars, hmVars, thVars, igVars, cpVars>>

CwNext ==
    \E p \in CwProcs :
       \/ CwExists(p)
       \/ CwFresh(p)
       \/ CwLoad(p)
       \/ CwRead(p)
       \/ CwCreate(p)
       \/ CwWrite(p)
       \/ CwWritten(p)
       \/ CwReturn(p)

\* the texts a finished write of the cache file holds: those left by earlier
\* runs and the rendering of the source
CompleteHtmls ==
    { f.content : f \in CwLeft \ {NoCacheFile} } \cup ChainHtmls(CwSlug, CwSource.content)

\* C21 (as claimed): a render_page call that returns cached = true returns
\* the complete html of a finished write of the cache file, never an empty
\* or cut-off text, also while another call is writing the file.
C21_HitReadsWholeFile ==
    \A p \in CwProcs :
       (/\ cw_p[p].pc = "done"
        /\ cw_p[p].res.kind = "ok"
        /\ cw_p[p].res.page.cached = Some(TRUE)) =>
            cw_p[p].res.page.html \in CompleteHtmls

\* what a hit does return: a text no longer than a complete one that
\* agrees with it wherever a write has put its bytes
HitReadsPartOfFile ==
    \A p \in CwProcs :
       (/\ cw_p[p].pc = "done"
        /\ cw_p[p].res.kind = "ok"
        /\ cw_p[p].res.page.cached = Some(TRUE)) =>
            \E h \in CompleteHtmls :
               LET got == cw_p[p].res.page.html.body
               IN  /\ Len(got) <= Len(h.body)
                   /\ \A i \in DOMAIN got : got[i] \in {h.body[i], Hole}

\* once no write is under way the file holds a complete text
WholeWhenQuiet ==
    (cw_file.exists /\ \A p \in CwProcs : cw_p[p].pc # "write") => cw_file.content \in CompleteHtmls

\* C35: re-rendering is idempotent: with the source and the dependencies at
\* rest, a render_page call that begins after a call has returned
\* cached = false writes no cache file and returns cached = true with the
\* html that call returned
C35_RerenderIsHitWithSameHtml ==
    \A p \in CwProcs :
       IsSome(cw_p[p].after) =>
          /\ cw_p[p].pc # "write"
          /\ cw_p[p].pc = "done" =>
                /\ cw_p[p].res.kind = "ok"
                /\ cw_p[p].res.page.cached = Some(TRUE)
                /\ cw_p[p].res.page.html = Get(cw_p[p].after)

\* a later call that meets no write under way does return the first html
RerenderAtRestIsHit ==
    \A p \in CwProcs :
       (/\ IsSome(cw_p[p].after)
        /\ cw_p[p].pc = "done"
        /\ cw_file.content \in CompleteHtmls
        /\ cw_p[p].res.page.html \in CompleteHtmls) =>
            /\ cw_p[p].res.page.cached = Some(TRUE)
            /\ cw_p[p].res.page.html = Get(cw_p[p].after)

---------------------------------------------------------------------------
(* SpecMarker: cache::update_hash_marker called by concurrent renders of   *)
(* one engine, all with the hash of its theme.  The read of the marker,    *)
(* the two system calls of fs::write (create or truncate, write) and the   *)
(* metadata read are one step each.                                        *)

HmProcs == {1, 2}

\* theme_hash of the running configuration
HmHash == "theme-a"

\* the last reading of the clock
HmMaxNow == 2

\* markers an earlier run may have left
HmLeft ==
    { NoMarker,
      Marked("theme-a", UNIX_EPOCH),
      Marked("theme-a\n", UNIX_EPOCH),
      Marked("theme-b", UNIX_EPOCH) }

\* a caller: its position, whether a call of it has passed the write, and
\* the mtime returned
HmRest == [pc |-> "idle", passed |-> FALSE, wrote |-> FALSE, out |-> None]

HmIdle == hm_marker = NoMarker /\ hm_now = UNIX_EPOCH /\ hm_p = [p \in HmProcs |-> HmRest]

HmStart == hm_marker \in HmLeft /\ hm_now = UNIX_EPOCH + 1 /\ hm_p = [p \in HmProcs |-> HmRest]

HmGoto(p, c) == hm_p' = [hm_p EXCEPT ![p] = c]

HmTick ==
    /\ hm_now < HmMaxNow
    /\ hm_now' = hm_now + 1
    /\ UNCHANGED <<hm_marker, hm_p, frVars, trVars, memVars, engVars, ecVars, pbVars, cwVars, thVars, igVars, cpVars>>

\* if let Ok(existing) = fs::read_to_string(&marker) { .. needs_write = false }
HmRead(p) ==
    /\ hm_p[p].pc = "idle"
    /\ IF needs_write(hm_marker, HmHash)
       THEN HmGoto(p, [hm_p[p] EXCEPT !.pc = "create", !.out = None, !.wrote = FALSE])
       ELSE HmGoto(p, [hm_p[p] EXCEPT !.pc = "stat", !.out = None, !.wrote = FALSE, !.passed = TRUE])
    /\ UNCHANGED <<hm_marker, hm_now, frVars, trVars, memVars, engVars, ecVars, pbVars, cwVars, thVars, igVars, cpVars>>

\* fs::write(&marker, hash): the file is created or truncated
HmCreate(p) ==
    /\ hm_p[p].pc = "create"
    /\ hm_marker' = Marked("", hm_now)
    /\ HmGoto(p, [hm_p[p] EXCEPT !.pc = "put"])
    /\ UNCHANGED <<hm_now, frVars, trVars, memVars, engVars, ecVars, pbVars, cwVars, thVars, igVars, cpVars>>

\* fs::write(&marker, hash): the hash is written at offset 0
HmPut(p) ==
    /\ hm_p[p].pc = "put"
    /\ hm_marker' = Marked(HmHash, hm_now)
    /\ HmGoto(p, [hm_p[p] EXCEPT !.pc = "stat", !.wrote = TRUE, !.passed = TRUE])
    /\ UNCHANGED <<hm_now, frVars, trVars, memVars, engVars, ecVars, pbVars, cwVars, thVars, igVars, cpVars>>

\* fs::metadata(&marker).and_then(|m| m.modified()).or(Ok(UNIX_EPOCH))
HmStat(p) ==
    /\ hm_p[p].pc = "stat"
    /\ HmGoto(p, [hm_p[p] EXCEPT !.pc = "done", !.out = Some(MarkerTime(hm_marker))])
    /\ UNCHANGED <<hm_marker, hm_now, frVars, trVars, memVars, engVars, ecVars, pbVars, cwVars, thVars, igVars, cpVars>>

HmReturn(p) ==
    /\ hm_p[p].pc = "done"
    /\ HmGoto(p, [hm_p[p] EXCEPT !.pc = "idle"])
    /\ UNCHANGED <<hm_marker, hm_now, frVars, trVars, memVars, engVars, ecVars, pbVars, cwVars, thVars, igVars, cpVars>>

HmNext ==
    \/ HmTick
    \/ \E p \in HmProcs :
          \/ HmRead(p)
          \/ HmCreate(p)
          \/ HmPut(p)
          \/ HmStat(p)
          \/ HmReturn(p)

\* a call is between the two system calls of its fs::write
HmWriting == \E p \in HmProcs : hm_p[p].pc = "put"

\* C24: with all calls using one hash and no lock around them, whenever a
\* call has passed its write (or found none needed) and no fs::write is
\* half done, the marker exists and its content is the hash (as trimmed by
\* the reader); the content of the marker is never anything but what was
\* left before, the hash, or the empty file of a write in progress.
C24_MarkerEndsWithHash ==
    /\ (~HmWriting /\ \E p \in HmProcs : hm_p[p].passed) =>
          hm_marker.exists /\ Trim(hm_marker.content) = HmHash
    /\ \A p \in HmProcs : hm_p[p].wrote => (hm_marker.exists /\ hm_marker.content \in {HmHash, ""})
    /\ hm_marker.content = "" => (~hm_marker.exists \/ HmWriting)

\* both calls read a marker of another hash before either wrote, both wrote,
\* both have returned
C24_Witness ==
    /\ \A p \in HmProcs : hm_p[p].pc = "done" /\ hm_p[p].wrote
    /\ hm_marker.content = HmHash

---------------------------------------------------------------------------
(* SpecTheme: render_page calls for one slug, one after the other, by      *)
(* engines whose theme hash may differ from one start to the next.  The    *)
(* source and the other dependencies are at rest; a call is one step.      *)

ThSlug == <<"posts", "hello">>
ThSource == File(<<"Hi">>, UNIX_EPOCH + 1)

\* the last reading of the clock
ThMaxNow == 3

\* no call yet
ThNoCall ==
    [called |-> FALSE, at |-> UNIX_EPOCH, hash |-> "", before |-> NoMarker, after |-> NoMarker,
     wrote |-> FALSE, mfailed |-> FALSE, mtime |-> UNIX_EPOCH,
     prev |-> None, cache_before |-> NoCacheFile, under_before |-> None,
     kind |-> "none", cached |-> None, under |-> None]

ThIdle ==
    /\ th_now = UNIX_EPOCH
    /\ th_theme = "theme-a"
    /\ th_marker = NoMarker
    /\ th_cache = NoCacheFile
    /\ th_log = ThNoCall

\* a first start: an empty cache directory, or the marker of an earlier run
ThStart ==
    /\ th_now = UNIX_EPOCH + 1
    /\ th_theme \in ThemeHashes
    /\ th_marker \in HmLeft
    /\ th_cache = NoCacheFile
    /\ th_log = ThNoCall

ThTick ==
    /\ th_now < ThMaxNow
    /\ th_now' = th_now + 1
    /\ UNCHANGED <<th_theme, th_marker, th_cache, th_log,
                   frVars, trVars, memVars, engVars, ecVars, pbVars, cwVars, hmVars, igVars, cpVars>>

\* the server is started again with another theme
ThRestart(h) ==
    /\ h # th_theme
    /\ th_theme' = h
    /\ UNCHANGED <<th_now, th_marker, th_cache, th_log,
                   frVars, trVars, memVars, engVars, ecVars, pbVars, cwVars, hmVars, igVars, cpVars>>

\* update_hash_marker whose fs::write fails (mfail): the error is returned
\* and the marker is as before
MarkerCall(m, hash, t, mfail) ==
    IF mfail /\ needs_write(m, hash)
    THEN [marker |-> m, mtime |-> None, wrote |-> TRUE]
    ELSE [marker |-> update_hash_marker(m, hash, t).marker,
          mtime |-> Some(update_hash_marker(m, hash, t).mtime),
          wrote |-> update_hash_marker(m, hash, t).wrote]

\* let theme_mtime = cache::update_hash_marker(..).unwrap_or(SystemTime::UNIX_EPOCH)
theme_mtime(um) == IF IsSome(um.mtime) THEN Get(um.mtime) ELSE UNIX_EPOCH

\* the cache file after a call at time t that ended with r
ThCacheAfter(r, uc, t) ==
    IF r.err.kind = "ok" /\ ~uc THEN [r.cfile EXCEPT !.mtime = t] ELSE th_cache

\* the call has returned: what it did is noted
ThNoted(um, uc, r) ==
    /\ th_marker' = um.marker
    /\ th_cache' = ThCacheAfter(r, uc, th_now)
    /\ th_log' =
         [called |-> TRUE, at |-> th_now, hash |-> th_theme,
          before |-> th_marker, after |-> um.marker,
          wrote |-> um.wrote, mfailed |-> ~IsSome(um.mtime), mtime |-> theme_mtime(um),
          prev |-> IF th_log.called /\ ~th_log.mfailed
                   THEN Some([hash |-> th_log.hash, mtime |-> th_log.mtime]) ELSE None,
          cache_before |-> th_cache, under_before |-> th_log.under,
          kind |-> r.err.kind, cached |-> IF r.err.kind = "ok" THEN Some(uc) ELSE None,
          under |-> IF r.err.kind = "ok" /\ ~uc THEN Some(th_theme) ELSE th_log.under]

\* render_page from the freshness test on, um being what update_hash_marker
\* returned
ThFrom(um, uc, wfail) ==
    ThNoted(um, uc,
            RenderLoaded(ThSlug, ThSource, th_cache, EmptyCache, CwInput, uc,
                         load_page(ThSlug, ThSource), wfail))

ThJudge(um, wfail) ==
    ThFrom(um,
           UseCache(ThSource, th_cache,
                    cache_is_fresh(Mtime(ThSource), Mtime(th_cache),
                                   <<UNIX_EPOCH, UNIX_EPOCH, UNIX_EPOCH, theme_mtime(um)>>)),
           wfail)

\* TrellisEngine::render_page(ThSlug)
ThRender(mfail, wfail) ==
    /\ ThJudge(MarkerCall(th_marker, th_theme, th_now, mfail), wfail)
    /\ UNCHANGED <<th_now, th_theme,
                   frVars, trVars, memVars, engVars, ecVars, pbVars, cwVars, hmVars, igVars, cpVars>>

ThNext ==
    \/ ThTick
    \/ \E h \in ThemeHashes : ThRestart(h)
    \/ \E mfail \in BOOLEAN, wfail \in BOOLEAN : ThRender(mfail, wfail)

----
\* properties of SpecTheme

\* C22: a call of update_hash_marker writes the marker iff it is missing or
\* its trimmed content differs from the hash; a write is done before the
\* mtime is read, so the mtime returned is that of the marker as written;
\* without a write the marker's content and mtime are as before and are
\* what is returned; a call with the hash of the call before it returns the
\* same mtime.
C22_ReadIfUnchangedWriteIfChanged ==
    LET L == th_log
    IN  (L.called /\ ~L.mfailed) =>
           /\ L.wrote <=> (~L.before.exists \/ Trim(L.before.content) # L.hash)
           /\ L.wrote => (L.after = Marked(L.hash, L.at) /\ L.mtime = L.at)
           /\ ~L.wrote => (L.after = L.before /\ L.mtime = L.before.mtime)
           /\ (IsSome(L.prev) /\ Get(L.prev).hash = L.hash) => L.mtime = Get(L.prev).mtime

\* a call that wrote the marker at a later time than the marker had, and a
\* second call with the same hash after the clock has moved on
C22_Witness ==
    /\ th_log.called
    /\ ~th_log.wrote
    /\ IsSome(th_log.prev)
    /\ Get(th_log.prev).hash = th_log.hash
    /\ th_log.at > th_log.mtime
    /\ th_log.mtime > UNIX_EPOCH

\* the call met a marker holding another hash than the engine's, and a cache
\* file written under another hash
ThemeChanged ==
    /\ th_log.called
    /\ th_log.before.exists
    /\ Trim(th_log.before.content) # th_log.hash
    /\ th_log.cache_before.exists
    /\ IsSome(th_log.under_before)
    /\ Get(th_log.under_before) # th_log.hash

\* the call did not reuse the cache file, and rewrote it if it returned a page
ThBusted ==
    /\ th_log.cached # Some(TRUE)
    /\ th_log.kind = "ok" => (th_cache.mtime = th_log.at /\ th_log.under = Some(th_log.hash))

\* C23 (as claimed): the first render_page after the theme hash has come to
\* differ from the stored one does not reuse a cache file written under the
\* old hash: it returns cached = false and rewrites the file.
C23_ThemeChangeBustsCache == ThemeChanged => ThBusted

\* what holds: the cache file is not reused when it is older than the
\* moment of the call and the marker could be written
BustedWhenOlder ==
    (ThemeChanged /\ ~th_log.mfailed /\ th_log.cache_before.mtime < th_log.at) => ThBusted

---------------------------------------------------------------------------
(* SpecIgnore: the ignore predicates of the renderer (prebuild and serve), *)
(* of the handlers (freshness scan and navigation walk) and of the content *)
(* index, applied to one path and one list of patterns.  A path is given   *)
(* by whether it lies under the root and by its components below it.       *)

Under(rel) == [inside |-> TRUE, rel |-> rel]
Outside == [inside |-> FALSE, rel |-> <<"etc", "passwd.md">>]

IgPaths ==
    { Under(<<>>), Under(<<"posts">>), Under(<<"posts", "hello.md">>),
      Under(<<"private">>), Under(<<"private", "secret.md">>),
      Under(<<"posts", "private", "a.md">>), Under(<<"private.md">>),
      Under(<<"a.md">>), Under(<<"notes.txt">>), Outside }

IgPatternLists ==
    { <<>>, <<"private">>, <<"secret.md">>, <<"posts", "private">>, <<"hello">>,
      <<"private.md">>, <<"a.md", "private">>, <<"secret">>, <<"notes.txt">>,
      <<"posts/hello.md">>, <<"passwd.md">> }

\* renderer.rs TrellisEngine::is_ignored_path, the patterns of the
\* configuration given as a list
renderer_is_ignored_path(path, patterns) ==
    IF ~path.inside THEN FALSE
    ELSE \E i \in DOMAIN path.rel : \E k \in DOMAIN patterns : patterns[k] = path.rel[i]

\* renderer.rs TrellisEngine::is_ignored_slug, the slug given by its components
renderer_is_ignored_slug(slug, patterns) ==
    renderer_is_ignored_path(Under(source_path_for(slug)), patterns)

\* mutant: only the last component is compared
handlers_is_ignored_LastOnly(path, patterns) ==
    IF ~path.inside \/ path.rel = <<>> THEN FALSE
    ELSE \E k \in DOMAIN patterns : patterns[k] = path.rel[Len(path.rel)]

\* handlers.rs is_ignored
handlers_is_ignored(path, patterns) ==
    IF ~path.inside THEN FALSE
    ELSE \E i \in DOMAIN path.rel : \E k \in DOMAIN patterns : patterns[k] = path.rel[i]

\* content_index.rs is_ignored
content_index_is_ignored(path, patterns) ==
    IF ~path.inside THEN FALSE
    ELSE \E i \in DOMAIN path.rel : \E k \in DOMAIN patterns : patterns[k] = path.rel[i]

\* WalkDir .. filter_entry(|e| !ignored(e.path())): an entry is yielded when
\* neither it nor a directory above it is filtered
Yields(ignored(_, _), path, patterns) ==
    \A n \in 0..Len(path.rel) : ~ignored(Under(SubSeq(path.rel, 1, n)), patterns)

\* the answers for a path and a list of patterns
IgAnswers(path, patterns) ==
    [renderer |-> renderer_is_ignored_path(path, patterns),
     handlers |-> handlers_is_ignored(path, patterns),
     index |-> content_index_is_ignored(path, patterns),
     prebuild_walk |-> Yields(renderer_is_ignored_path, path, patterns),
     nav_walk |-> Yields(handlers_is_ignored, path, patterns),
     index_walk |-> Yields(content_index_is_ignored, path, patterns),
     slug |-> IF path.inside /\ path.rel # <<>>
              THEN Some(renderer_is_ignored_slug(slug_from_path(path.rel), patterns))
              ELSE None]

IgIdle == ig_rel = Under(<<>>) /\ ig_patterns = <<>> /\ ig_out = None

IgStart == ig_rel \in IgPaths /\ ig_patterns \in IgPatternLists /\ ig_out = None

\* the predicates are applied
IgApply ==
    /\ ig_out = None
    /\ ig_out' = Some(IgAnswers(ig_rel, ig_patterns))
    /\ UNCHANGED <<ig_rel, ig_patterns,
                   frVars, trVars, memVars, engVars, ecVars, pbVars, cwVars, hmVars, thVars, cpVars>>

\* the next path and the next configuration
IgPick(path, patterns) ==
    /\ ig_out # None
    /\ ig_rel' = path
    /\ ig_patterns' = patterns
    /\ ig_out' = None
    /\ UNCHANGED <<frVars, trVars, memVars, engVars, ecVars, pbVars, cwVars, hmVars, thVars, cpVars>>

IgNext ==
    \/ IgApply
    \/ \E path \in IgPaths, patterns \in IgPatternLists : IgPick(path, patterns)

\* some component below the root equals some pattern, as a whole string
SegmentMatch(path, patterns) ==
    path.inside /\ { path.rel[i] : i \in DOMAIN path.rel } \cap { patterns[k] : k \in DOMAIN patterns } # {}

\* C27: for every path and list of patterns the predicates of the renderer,
\* of the handlers and of the content index give the same answer, which is
\* that some component of the relative path equals some pattern; the
\* renderer's test of a file's slug gives that answer too, so render_page
\* admits the slug of a markdown file iff the prebuild walk, the navigation
\* walk and the index walk yield the file.  With the patterns of the
\* engine's configuration the answer is that of is_ignored_path.
C27_IgnoreUniform ==
    IsSome(ig_out) =>
       LET o == Get(ig_out)
       IN  /\ o.renderer = SegmentMatch(ig_rel, ig_patterns)
           /\ o.handlers = o.renderer
           /\ o.index = o.renderer
           /\ (ig_rel.inside /\ ig_rel.rel # <<>> /\ IsMd(ig_rel.rel[Len(ig_rel.rel)])) =>
                 /\ Get(o.slug) = o.renderer
                 /\ ~Get(o.slug) <=> o.prebuild_walk
                 /\ o.prebuild_walk = o.nav_walk
                 /\ o.nav_walk = o.index_walk
           /\ (ig_rel.inside /\ { ig_patterns[k] : k \in DOMAIN ig_patterns } = ignore_patterns) =>
                 o.renderer = is_ignored_path(ig_rel.rel)

\* a markdown file below a directory that matches, refused and not walked
C27_Witness ==
    /\ IsSome(ig_out)
    /\ ig_rel = Under(<<"posts", "private", "a.md">>)
    /\ ig_patterns = <<"a.md", "private">>
    /\ Get(ig_out).handlers
    /\ Get(Get(ig_out).slug)
    /\ ~Get(ig_out).nav_walk

---------------------------------------------------------------------------
(* SpecCachePath: cache::cache_path applied to two slugs.  A slug is given  *)
(* by the segments its text has between the '/' characters, so "a//b" is    *)
(* <<"a", "", "b">>; a path is the sequence of its components, which is     *)
(* what PathBuf compares and what the file system resolves.                 *)

\* the text of a slug
RECURSIVE to_string(_)
to_string(segs) ==
    IF segs = <<>> THEN ""
    ELSE IF Len(segs) = 1 THEN segs[1]
    ELSE segs[1] \o "/" \o to_string(Tail(segs))

\* Path::components without normalisation
components_Raw(segs) == segs

\* Path::components of a relative path: repeated separators and "."
\* segments are passed over (a leading "." is a component of its own, and
\* is passed over once the path is joined below the cache root)
components(segs) == SelectSeq(segs, LAMBDA seg : seg \notin {"", "."})

\* Path::parent: the path without its last component, None for the empty path
parent(segs) ==
    LET c == components(segs)
    IN  IF c = <<>> THEN None ELSE Some(SubSeq(c, 1, Len(c) - 1))

\* Path::file_name: the last component unless it is ".."
file_name(segs) ==
    LET c == components(segs)
    IN  IF c = <<>> \/ c[Len(c)] = ".." THEN None ELSE Some(c[Len(c)])

\* PathBuf::join of a relative path
join(path, rel) == components(path \o rel)

cache_path(cache_root, slug) ==
    LET path     == IF IsSome(parent(slug)) THEN join(cache_root, Get(parent(slug)))
                    ELSE cache_root
        filename == IF IsSome(file_name(slug)) THEN Get(file_name(slug))
                    ELSE to_string(slug)
    IN  join(path, <<filename \o ".html">>)

\* update_hash_marker's marker file for the theme
theme_marker_path(cache_root) == join(cache_root, <<".theme_hash">>)

CacheRoot == <<"cache">>

\* the slugs render_slug can hand over: outer slashes are trimmed, the
\* segments between are kept as written
CpSlugs ==
    { <<"index">>, <<"a">>, <<"b">>, <<"a", "b">>, <<"a", "", "b">>, <<"a", ".", "b">>,
      <<"a", "index">>, <<".theme_hash">>, <<"a.html">>, <<"a", "a">>, <<".", "a">> }

CpIdle == cp_a = <<>> /\ cp_b = <<>> /\ cp_out = None

CpStart == cp_a \in CpSlugs /\ cp_b \in CpSlugs /\ cp_out = None

CpCall ==
    /\ cp_out = None
    /\ cp_out' = Some([a |-> cache_path(CacheRoot, cp_a), b |-> cache_path(CacheRoot, cp_b)])
    /\ UNCHANGED <<cp_a, cp_b, frVars, trVars, memVars, engVars, ecVars, pbVars, cwVars, hmVars, thVars, igVars>>

CpNext == CpCall

\* the segments of a slug that name a directory or a file
Naming(segs) == SelectSeq(segs, LAMBDA seg : seg # "" /\ seg # ".")

\* C33 as stated: two distinct slugs never map to the same cache path, and
\* no cache path is the theme marker
C33_DistinctSlugsDistinctPaths ==
    IsSome(cp_out) =>
        /\ cp_a # cp_b => Get(cp_out).a # Get(cp_out).b
        /\ Get(cp_out).a # theme_marker_path(CacheRoot)

\* C33: the cache path of a slug is the cache root, the slug's directory
\* and "<basename>.html"; two slugs map to the same cache path exactly when
\* they differ by empty and "." segments only; no cache path is the theme
\* marker
C33_PathsSeparateNamedFiles ==
    IsSome(cp_out) =>
        /\ Get(cp_out).a = CacheRoot \o SubSeq(Naming(cp_a), 1, Len(Naming(cp_a)) - 1)
                                     \o << Naming(cp_a)[Len(Naming(cp_a))] \o ".html" >>
        /\ (Get(cp_out).a = Get(cp_out).b) <=> (Naming(cp_a) = Naming(cp_b))
        /\ Get(cp_out).a # theme_marker_path(CacheRoot)
        /\ Get(cp_out).b # theme_marker_path(CacheRoot)

\* "a//b" and "a/b" share cache/a/b.html
C33_Witness ==
    /\ IsSome(cp_out)
    /\ cp_a = <<"a", "", "b">>
    /\ cp_b = <<"a", "b">>
    /\ Get(cp_out).a = <<"cache", "a", "b.html">>
    /\ Get(cp_out).b = <<"cache", "a", "b.html">>

---------------------------------------------------------------------------
(* The specifications.  Each runs one part of the program and leaves the   *)
(* state of the others at rest.                                            *)

FrInit == FrStart /\ TrIdle /\ MemIdle /\ EngIdle /\ EcIdle /\ PbIdle /\ CwIdle /\ HmIdle /\ ThIdle /\ IgIdle /\ CpIdle
SpecFresh == FrInit /\ [][FrNext]_vars

TrInit == TrStart /\ FrIdle /\ MemIdle /\ EngIdle /\ EcIdle /\ PbIdle /\ CwIdle /\ HmIdle /\ ThIdle /\ IgIdle /\ CpIdle
SpecTransform == TrInit /\ [][TrNext]_vars

ScInit == MemStart({"templates"}) /\ FrIdle /\ TrIdle /\ EngIdle /\ EcIdle /\ PbIdle /\ CwIdle /\ HmIdle /\ ThIdle /\ IgIdle /\ CpIdle
SpecScripts == ScInit /\ [][ScNext]_vars

Init == EngStart /\ FrIdle /\ TrIdle /\ MemIdle /\ EcIdle /\ PbIdle /\ CwIdle /\ HmIdle /\ ThIdle /\ IgIdle /\ CpIdle
Spec == Init /\ [][Next]_vars

MemInit == MemStart({"content", "styles"}) /\ FrIdle /\ TrIdle /\ EngIdle /\ EcIdle /\ PbIdle /\ CwIdle /\ HmIdle /\ ThIdle /\ IgIdle /\ CpIdle
SpecMem == MemInit /\ [][MemNext]_vars

EcInit == EcIdle /\ FrIdle /\ TrIdle /\ MemIdle /\ EngIdle /\ PbIdle /\ CwIdle /\ HmIdle /\ ThIdle /\ IgIdle /\ CpIdle
SpecEncrypt == EcInit /\ [][EcNext]_vars

CwInit == CwStart /\ FrIdle /\ TrIdle /\ MemIdle /\ EngIdle /\ EcIdle /\ PbIdle /\ HmIdle /\ ThIdle /\ IgIdle /\ CpIdle
SpecCacheWrite == CwInit /\ [][CwNext]_vars

HmInit == HmStart /\ FrIdle /\ TrIdle /\ MemIdle /\ EngIdle /\ EcIdle /\ PbIdle /\ CwIdle /\ ThIdle /\ IgIdle /\ CpIdle
SpecMarker == HmInit /\ [][HmNext]_vars

ThInit == ThStart /\ FrIdle /\ TrIdle /\ MemIdle /\ EngIdle /\ EcIdle /\ PbIdle /\ CwIdle /\ HmIdle /\ IgIdle /\ CpIdle
SpecTheme == ThInit /\ [][ThNext]_vars

IgInit == IgStart /\ FrIdle /\ TrIdle /\ MemIdle /\ EngIdle /\ EcIdle /\ PbIdle /\ CwIdle /\ HmIdle /\ ThIdle /\ CpIdle
SpecIgnore == IgInit /\ [][IgNext]_vars

CpInit == CpStart /\ FrIdle /\ TrIdle /\ MemIdle /\ EngIdle /\ EcIdle /\ PbIdle /\ CwIdle /\ HmIdle /\ ThIdle /\ IgIdle
SpecCachePath == CpInit /\ [][CpNext]_vars

PbInit == PbStart /\ FrIdle /\ TrIdle /\ MemIdle /\ EngIdle /\ EcIdle /\ CwIdle /\ HmIdle /\ ThIdle /\ IgIdle /\ CpIdle
SpecPrebuild == PbInit /\ [][PbNext]_vars

=============================================================================
